---- MODULE Spec2Model ----
(***************************************************************************)
(* Thread/conversation aggregation engine of Tebbi-Analyst                 *)
(* (src/utils/thread_analytics.py, class ThreadAnalytics).                 *)
(*                                                                         *)
(* Text is modelled as a sequence of one-character strings, so that        *)
(* slicing, trimming, lower-casing and lexicographic comparison are        *)
(* computed the way Python computes them.  A JSON value is a tagged        *)
(* record: JStr, JList, JDict, JNull.  A Python dict is a function whose   *)
(* DOMAIN is the set of keys present.                                      *)
(***************************************************************************)
EXTENDS Integers, Sequences, FiniteSets, TLC

\* ------------------------------------------------------------------ bounds
\* longest message list enumerated under one value of a history item
MaxMsgs == 2
\* longest history list enumerated for the conversation builder
MaxHistoryLen == 2

\* ------------------------------------------------------------------- text
Min(a, b) == IF a < b THEN a ELSE b
Max(a, b) == IF a > b THEN a ELSE b

Rep(c, n) == [i \in 1..n |-> c]

UpperAlphabet ==
  <<"A","B","C","D","E","F","G","H","I","J","K","L","M",
    "N","O","P","Q","R","S","T","U","V","W","X","Y","Z">>
LowerAlphabet ==
  <<"a","b","c","d","e","f","g","h","i","j","k","l","m",
    "n","o","p","q","r","s","t","u","v","w","x","y","z">>
Digits == <<"0","1","2","3","4","5","6","7","8","9">>

IndexIn(c, alphabet) ==
  IF \E i \in 1..Len(alphabet) : alphabet[i] = c
    THEN CHOOSE i \in 1..Len(alphabet) : alphabet[i] = c
    ELSE 0

\* str.lower() on one character and on a string
LowerChar(c) ==
  IF IndexIn(c, UpperAlphabet) > 0 THEN LowerAlphabet[IndexIn(c, UpperAlphabet)] ELSE c
Lower(s) == [i \in 1..Len(s) |-> LowerChar(s[i])]

\* the code point of a character (ASCII), for Python's string comparison
Ord(c) ==
  IF IndexIn(c, Digits) > 0 THEN 47 + IndexIn(c, Digits)
  ELSE IF IndexIn(c, UpperAlphabet) > 0 THEN 64 + IndexIn(c, UpperAlphabet)
  ELSE IF IndexIn(c, LowerAlphabet) > 0 THEN 96 + IndexIn(c, LowerAlphabet)
  ELSE CASE c = " " -> 32 [] c = "+" -> 43 [] c = "-" -> 45 [] c = "." -> 46
         [] c = ":" -> 58 [] c = "_" -> 95 [] c = "{" -> 123 [] c = "}" -> 125
         [] OTHER -> 0

\* Python's a < b and a <= b on strings: lexicographic by code point
StrLess(a, b) ==
  \E i \in 1..(Len(a) + 1) :
     /\ i <= Len(b)
     /\ \A j \in 1..(i - 1) : a[j] = b[j]
     /\ (i = Len(a) + 1 \/ Ord(a[i]) < Ord(b[i]))
StrLeq(a, b) == a = b \/ StrLess(a, b)

IsSpace(c) == c \in {" ", "\t", "\n"}

\* str.strip()
Strip(s) ==
  IF \A i \in 1..Len(s) : IsSpace(s[i]) THEN <<>>
  ELSE LET first == CHOOSE i \in 1..Len(s) :
                       ~IsSpace(s[i]) /\ \A j \in 1..(i - 1) : IsSpace(s[j])
           last  == CHOOSE i \in 1..Len(s) :
                       ~IsSpace(s[i]) /\ \A j \in (i + 1)..Len(s) : IsSpace(s[j])
       IN  SubSeq(s, first, last)

\* s[:n] and s[-n:]
Prefix(s, n) == SubSeq(s, 1, Min(n, Len(s)))
Suffix(s, n) == SubSeq(s, Max(1, Len(s) - n + 1), Len(s))

\* `needle in s` on strings
Contains(s, needle) ==
  \E i \in 0..(Len(s) - Len(needle)) :
     \A j \in 1..Len(needle) : s[i + j] = needle[j]

\* ' '.join(parts)
RECURSIVE JoinSpace(_)
JoinSpace(parts) ==
  IF Len(parts) = 0 THEN <<>>
  ELSE IF Len(parts) = 1 THEN parts[1]
  ELSE parts[1] \o <<" ">> \o JoinSpace(Tail(parts))

RECURSIVE Flatten(_)
Flatten(seqs) ==
  IF Len(seqs) = 0 THEN <<>> ELSE seqs[1] \o Flatten(Tail(seqs))

\* ------------------------------------------------------------ JSON values
JStr(s)  == [t |-> "str", s |-> s]
JList(l) == [t |-> "list", l |-> l]
JDict(d) == [t |-> "dict", d |-> d]
JNull    == [t |-> "null"]

IsStr(j)  == j.t = "str"
IsList(j) == j.t = "list"
IsDict(j) == j.t = "dict"

\* Python truthiness: '', [], {} and None are falsy
Truthy(j) ==
  CASE j.t = "str"  -> Len(j.s) > 0
    [] j.t = "list" -> Len(j.l) > 0
    [] j.t = "dict" -> DOMAIN j.d # {}
    [] OTHER        -> FALSE

\* dict.get(key, default) on the mapping of a JDict
Get(d, k, default) == IF k \in DOMAIN d THEN d[k] ELSE default

EmptyDict == [k \in {} |-> JNull]

\* str(x) for the values that occur as message content
PyStr(j) ==
  CASE j.t = "str"  -> j.s
    [] j.t = "dict" -> IF DOMAIN j.d = {} THEN <<"{", "}">> ELSE <<"{", ".", "}">>
    [] j.t = "list" -> IF Len(j.l) = 0 THEN <<"[", "]">> ELSE <<"[", ".", "]">>
    [] OTHER        -> <<"N", "o", "n", "e">>

\* --------------------------------------------------- Message Extractor
\* the spelling of the dictionary keys the model uses (key.lower() and the
\* substring test of _extract_messages_from_value work on characters)
KeyChars(k) ==
  CASE k = "messages"     -> <<"m","e","s","s","a","g","e","s">>
    [] k = "chat_history" -> <<"c","h","a","t","_","h","i","s","t","o","r","y">>
    [] k = "Dialog"       -> <<"D","i","a","l","o","g">>
    [] k = "state"        -> <<"s","t","a","t","e">>
    [] OTHER              -> <<>>

\* the iteration order of value.items() (insertion order of the payload)
KeyOrder == <<"messages", "chat_history", "Dialog", "state">>

MessageKeywords ==
  { <<"m","e","s","s","a","g","e">>, <<"c","h","a","t">>,
    <<"c","o","n","v","e","r","s","a","t","i","o","n">>, <<"d","i","a","l","o","g">> }

sHuman     == <<"h","u","m","a","n">>
sUser      == <<"u","s","e","r">>
sAi        == <<"a","i">>
sAssistant == <<"a","s","s","i","s","t","a","n","t">>
sUnknown   == <<"u","n","k","n","o","w","n">>

\* the two roles of a normalized message
rUser == <<"U","s","e","r">>
rAI   == <<"A","I">>

\* a mapping that sends only `human` to User
UserTypes_HumanOnly == {sHuman}
UserTypes  == {sHuman, sUser}
ValidTypes == {sHuman, sAi, sUser, sAssistant}

\* what one key of the value contributes in the scan of the other keys
KeyMessages(d, k) ==
  IF k \in DOMAIN d /\ (\E kw \in MessageKeywords : Contains(Lower(KeyChars(k)), kw))
    THEN IF IsList(d[k]) THEN d[k].l
         ELSE IF IsDict(d[k]) THEN <<d[k]>>
         ELSE <<>>
    ELSE <<>>

\* _extract_messages_from_value(value): value is the mapping of a dict
ExtractMessagesFromValue(d) ==
  LET direct_messages == Get(d, "messages", JList(<<>>))
      messages == IF IsList(direct_messages) THEN direct_messages.l
                  ELSE IF Truthy(direct_messages) THEN <<direct_messages>>
                  ELSE <<>>
  IN  IF Len(messages) = 0
        THEN Flatten([i \in 1..Len(KeyOrder) |-> KeyMessages(d, KeyOrder[i])])
        ELSE messages

\* the content of a message after "Handle various content formats"
NormalizeContent(content) ==
  IF IsList(content)
    THEN LET kept == SelectSeq(content.l, Truthy)
         IN  JStr(JoinSpace([i \in 1..Len(kept) |-> PyStr(kept[i])]))
    ELSE IF IsDict(content) THEN JStr(PyStr(content))
    ELSE content

\* a role test that lets every string through
RoleRecognized_AnyString(msg_type) == IsStr(msg_type)
\* the test on msg_type of the "Validate message" line
RoleRecognized(msg_type) == IsStr(msg_type) /\ msg_type.s \in ValidTypes

\* _process_message(msg, timestamp): <<>> for None, else <<the message>>
ProcessMessage(msg, timestamp) ==
  IF ~IsDict(msg) THEN <<>>
  ELSE LET msg_type == Get(msg.d, "type", Get(msg.d, "role", JStr(sUnknown)))
           raw      == Get(msg.d, "content",
                           Get(msg.d, "text", Get(msg.d, "message", JStr(<<>>))))
           content  == NormalizeContent(raw)
       IN  IF ~Truthy(content) \/ Len(Strip(PyStr(content))) = 0
              \/ ~RoleRecognized(msg_type)
             THEN <<>>
             ELSE << [timestamp |-> timestamp,
                      role      |-> IF msg_type.s \in UserTypes THEN rUser ELSE rAI,
                      content   |-> Strip(PyStr(content))] >>

\* ------------------------------------------------ Conversation Builder
\* values normalized to a list, and the timestamp of the item
ValuesList(item) ==
  LET values == Get(item.d, "values", JDict(EmptyDict))
  IN  IF IsDict(values) THEN <<values>>
      ELSE IF IsList(values) THEN values.l
      ELSE <<>>
CreatedAt(item) == Get(item.d, "created_at", JStr(<<>>)).s

\* the raw candidates of one entry of values_list
ValueCandidates(value) ==
  IF ~IsDict(value) THEN <<>> ELSE ExtractMessagesFromValue(value.d)

\* the raw candidates of one item, in the order the loops visit them
ItemCandidates(item) ==
  Flatten([i \in 1..Len(ValuesList(item)) |-> ValueCandidates(ValuesList(item)[i])])

\* the body of the loop over history_data for one item that is a dict
ItemMessages(item) ==
  LET cands == ItemCandidates(item)
  IN  Flatten([i \in 1..Len(cands) |-> ProcessMessage(cands[i], CreatedAt(item))])

\* the loop `for item in history_data`: a non-dict item returns [] at once,
\* and the `break` ending the loop body leaves the loop after the first item
CollectConversation(items) ==
  IF Len(items) = 0 THEN <<>>
  ELSE IF ~IsDict(items[1]) THEN <<>>
  ELSE ItemMessages(items[1])

\* an insertion that puts a message before the messages of equal timestamp
InsertByTimestamp_Unstable(sorted, m) ==
  LET n == Cardinality({i \in 1..Len(sorted) : StrLess(sorted[i].timestamp, m.timestamp)})
  IN  SubSeq(sorted, 1, n) \o <<m>> \o SubSeq(sorted, n + 1, Len(sorted))
\* list.sort(key=timestamp): stable, ascending by string comparison
InsertByTimestamp(sorted, m) ==
  LET n == Cardinality({i \in 1..Len(sorted) : StrLeq(sorted[i].timestamp, m.timestamp)})
  IN  SubSeq(sorted, 1, n) \o <<m>> \o SubSeq(sorted, n + 1, Len(sorted))

RECURSIVE SortByTimestamp(_)
SortByTimestamp(conv) ==
  IF Len(conv) = 0 THEN <<>>
  ELSE InsertByTimestamp(SortByTimestamp(SubSeq(conv, 1, Len(conv) - 1)), conv[Len(conv)])

\* extract_convfrom_history(history_data)
ExtractConversation(history_data) ==
  IF ~Truthy(history_data) \/ ~IsList(history_data) THEN <<>>
  ELSE SortByTimestamp(CollectConversation(history_data.l))

\* a run that pops the items it has read off the caller's list
InputAfterRun_Drained(history_data) ==
  IF IsList(history_data) THEN JList(<<>>) ELSE history_data
\* the caller's history_data after a call: the function builds new lists
\* (conversation, values_list, messages) and new dicts, sorts the new
\* list, and assigns to nothing reachable from its argument
InputAfterRun(history_data) == history_data

\* ---------------------------------------------------- Tool-Call Analyzer
sCreateLead    == <<"c","r","e","a","t","e","_","l","e","a","d">>
sSendHtmlEmail == <<"s","e","n","d","_","h","t","m","l","_","e","m","a","i","l">>

NoCalls == [raised |-> FALSE, calls |-> <<>>]
Raised  == [raised |-> TRUE, calls |-> <<>>]

\* the results of consecutive steps, an exception ending the function
RECURSIVE Chain(_)
Chain(results) ==
  IF Len(results) = 0 THEN NoCalls
  ELSE IF results[1].raised THEN Raised
  ELSE LET rest == Chain(Tail(results))
       IN  IF rest.raised THEN Raised
           ELSE [raised |-> FALSE, calls |-> results[1].calls \o rest.calls]

\* one descriptor of additional_kwargs.tool_calls: {id, function: {name, arguments}}
KwargsCall(tool_call) ==
  IF ~IsDict(tool_call) THEN NoCalls
  ELSE LET function_info == Get(tool_call.d, "function", JDict(EmptyDict))
       IN  IF ~IsDict(function_info) THEN Raised
           ELSE [raised |-> FALSE,
                 calls  |-> << [function_name |-> Get(function_info.d, "name", JStr(<<>>)),
                                call_id       |-> Get(tool_call.d, "id", JStr(<<>>)),
                                arguments     |-> Get(function_info.d, "arguments", JStr(<<>>))] >>]

\* one descriptor of the message's own tool_calls: {id, name, args}
DirectCall(tool_call) ==
  IF ~IsDict(tool_call) THEN NoCalls
  ELSE [raised |-> FALSE,
        calls  |-> << [function_name |-> Get(tool_call.d, "name", JStr(<<>>)),
                       call_id       |-> Get(tool_call.d, "id", JStr(<<>>)),
                       arguments     |-> JStr(PyStr(Get(tool_call.d, "args", JDict(EmptyDict))))] >>]

\* a choice that always falls back to the message's own tool_calls
UseKwargs_Never(tool_calls) == FALSE
\* the choice between the two shapes for one message
UseKwargs(tool_calls) == Truthy(tool_calls) /\ IsList(tool_calls)

\* the descriptors read from one message, with the message's type and id
MessageCalls(message, created_at) ==
  IF ~IsDict(message) THEN NoCalls
  ELSE LET additional_kwargs == Get(message.d, "additional_kwargs", JDict(EmptyDict))
       IN  IF ~IsDict(additional_kwargs) THEN Raised
           ELSE LET tool_calls == Get(additional_kwargs.d, "tool_calls", JList(<<>>))
                    direct     == Get(message.d, "tool_calls", JList(<<>>))
                    found      == IF UseKwargs(tool_calls)
                                    THEN Chain([i \in 1..Len(tool_calls.l) |-> KwargsCall(tool_calls.l[i])])
                                    ELSE IF IsList(direct)
                                           THEN Chain([i \in 1..Len(direct.l) |-> DirectCall(direct.l[i])])
                                           ELSE NoCalls
                    Stamp(c)   == [function_name |-> c.function_name,
                                   call_id       |-> c.call_id,
                                   arguments     |-> c.arguments,
                                   timestamp     |-> created_at,
                                   message_type  |-> Get(message.d, "type", JStr(<<>>)),
                                   message_id    |-> Get(message.d, "id", JStr(<<>>))]
                IN  [raised |-> found.raised,
                     calls  |-> [i \in 1..Len(found.calls) |-> Stamp(found.calls[i])]]

\* the descriptors read from one history item, in the order of the loops;
\* item.get and values.get raise on anything that is not a dict
ItemCalls(item) ==
  IF ~IsDict(item) THEN Raised
  ELSE LET values == Get(item.d, "values", JDict(EmptyDict))
       IN  IF ~IsDict(values) THEN Raised
           ELSE LET messages == Get(values.d, "messages", JList(<<>>))
                IN  IF ~IsList(messages) THEN NoCalls
                    ELSE Chain([i \in 1..Len(messages.l) |->
                                  MessageCalls(messages.l[i], Get(item.d, "created_at", JStr(<<>>)))])

\* a test that never finds the call_id
AlreadyProcessed_Never(ids, call_id) == FALSE
\* call_id in processed_call_ids
AlreadyProcessed(ids, call_id) == call_id \in ids

\* "Tranh duplicate bang call_id": the test that accepts a descriptor
Accepted(ids, c) ==
  Truthy(c.function_name) /\ Truthy(c.call_id) /\ ~AlreadyProcessed(ids, c.call_id)

\* an update that counts every call that is not send_html_email as create_lead
CountCall_OtherAsLead(stats, c) ==
  [create_lead       |-> stats.create_lead
                           + (IF c.function_name # JStr(sSendHtmlEmail) THEN 1 ELSE 0),
   send_html_email   |-> stats.send_html_email
                           + (IF c.function_name = JStr(sSendHtmlEmail) THEN 1 ELSE 0),
   total_tool_calls  |-> stats.total_tool_calls + 1,
   tool_calls_detail |-> Append(stats.tool_calls_detail, c)]
\* the update of tool_stats for one accepted descriptor
CountCall(stats, c) ==
  [create_lead       |-> stats.create_lead
                           + (IF c.function_name = JStr(sCreateLead) THEN 1 ELSE 0),
   send_html_email   |-> stats.send_html_email
                           + (IF c.function_name = JStr(sSendHtmlEmail) THEN 1 ELSE 0),
   total_tool_calls  |-> stats.total_tool_calls + 1,
   tool_calls_detail |-> Append(stats.tool_calls_detail, c)]

\* the descriptors of a list folded into (processed_call_ids, tool_stats)
RECURSIVE FoldCalls(_, _)
FoldCalls(st, calls) ==
  IF Len(calls) = 0 THEN st
  ELSE LET c == calls[1]
       IN  FoldCalls(IF Accepted(st.ids, c)
                       THEN [ids |-> st.ids \cup {c.call_id}, stats |-> CountCall(st.stats, c)]
                       ELSE st,
                     Tail(calls))

\* ---------------------------------------------------------- Thread Fetcher
\* the page size of fetch_all_threads
Limit == 1000

IsDigit(c) == IndexIn(c, Digits) > 0
DigitVal(c) == IndexIn(c, Digits) - 1
AllDigits(s, from, to) == \A i \in from..to : IsDigit(s[i])
Num2(s, i) == 10 * DigitVal(s[i]) + DigitVal(s[i + 1])
Num4(s, i) == 100 * Num2(s, i) + Num2(s, i + 2)

IsLeap(y) == (y % 4 = 0 /\ y % 100 # 0) \/ y % 400 = 0
DaysInMonth(y, m) ==
  IF m = 2 THEN (IF IsLeap(y) THEN 29 ELSE 28)
  ELSE IF m \in {4, 6, 9, 11} THEN 30 ELSE 31

NoDate == [ok |-> FALSE, date |-> 0]

\* the calendar date written YYYY-MM-DD at the head of s, as the number
\* YYYYMMDD (dates compare as these numbers compare)
ParseYmd(s) ==
  IF /\ Len(s) >= 10
     /\ AllDigits(s, 1, 4) /\ s[5] = "-" /\ AllDigits(s, 6, 7)
     /\ s[8] = "-" /\ AllDigits(s, 9, 10)
     /\ Num4(s, 1) >= 1
     /\ Num2(s, 6) \in 1..12
     /\ Num2(s, 9) >= 1 /\ Num2(s, 9) <= DaysInMonth(Num4(s, 1), Num2(s, 6))
    THEN [ok |-> TRUE, date |-> 10000 * Num4(s, 1) + 100 * Num2(s, 6) + Num2(s, 9)]
    ELSE NoDate

\* [+-]HH:MM
OffsetValid(z) ==
  /\ Len(z) = 6
  /\ z[1] \in {"+", "-"}
  /\ AllDigits(z, 2, 3) /\ z[4] = ":" /\ AllDigits(z, 5, 6)
  /\ Num2(z, 2) < 24 /\ Num2(z, 5) < 60

\* the part of an ISO timestamp after the date: nothing, or a separator,
\* HH:MM:SS, an optional fraction of 3 or 6 digits and an optional offset
TimeValid(r) ==
  \/ Len(r) = 0
  \/ /\ Len(r) >= 9
     /\ r[1] \in {"T", " "}
     /\ AllDigits(r, 2, 3) /\ r[4] = ":" /\ AllDigits(r, 5, 6)
     /\ r[7] = ":" /\ AllDigits(r, 8, 9)
     /\ Num2(r, 2) < 24 /\ Num2(r, 5) < 60 /\ Num2(r, 8) < 60
     /\ LET after == SubSeq(r, 10, Len(r))
            frac  == IF Len(after) >= 7 /\ after[1] = "." /\ AllDigits(after, 2, 7) THEN 7
                     ELSE IF Len(after) >= 4 /\ after[1] = "." /\ AllDigits(after, 2, 4) THEN 4
                     ELSE 0
            zone  == SubSeq(after, frac + 1, Len(after))
        IN  Len(zone) = 0 \/ OffsetValid(zone)

\* str.replace('Z', '+00:00')
ReplaceZ(s) ==
  Flatten([i \in 1..Len(s) |-> IF s[i] = "Z" THEN <<"+","0","0",":","0","0">> ELSE <<s[i]>>])

\* datetime.fromisoformat(s).date(): the date as written, no conversion
\* of the offset; not ok stands for ValueError
FromIsoFormatDate(s) ==
  IF ParseYmd(s).ok /\ TimeValid(SubSeq(s, 11, Len(s))) THEN ParseYmd(s) ELSE NoDate

\* datetime.strptime(s, '%Y-%m-%d').date()
StrptimeDate(s) == IF Len(s) = 10 THEN ParseYmd(s) ELSE NoDate

\* a lower bound that excludes the boundary date
BelowFrom_Exclusive(thread_date, from_date) == thread_date <= from_date
\* thread_date < from_date
BelowFrom(thread_date, from_date) == thread_date < from_date
\* thread_date > to_date
AboveTo(thread_date, to_date) == thread_date > to_date

\* the body of the loop of _filter_threads_by_date: TRUE when the thread is
\* appended; ValueError and AttributeError inside the try skip the thread
KeepThread(thread, date_from, date_to) ==
  LET updated_at == Get(thread.d, "updated_at", JStr(<<>>))
  IN  /\ Truthy(updated_at)
      /\ IsStr(updated_at)
      /\ LET thread_date == FromIsoFormatDate(ReplaceZ(updated_at.s))
         IN  /\ thread_date.ok
             /\ Truthy(date_from) =>
                  /\ StrptimeDate(date_from.s).ok
                  /\ ~BelowFrom(thread_date.date, StrptimeDate(date_from.s).date)
             /\ Truthy(date_to) =>
                  /\ StrptimeDate(date_to.s).ok
                  /\ ~AboveTo(thread_date.date, StrptimeDate(date_to.s).date)

\* _filter_threads_by_date(threads, date_from, date_to)
FilterThreadsByDate(threads, date_from, date_to) ==
  IF ~Truthy(date_from) /\ ~Truthy(date_to) THEN threads
  ELSE LET Keep(thread) == KeepThread(thread, date_from, date_to)
       IN  SelectSeq(threads, Keep)

\* a handler that lets a malformed body through
IsRequestException_NotJson(kind) == kind \in {"connection_error", "http_error"}
\* the failures of session.post, raise_for_status and response.json that
\* are requests.exceptions.RequestException
IsRequestException(kind) == kind \in {"connection_error", "http_error", "invalid_json"}

\* fetch_threads(limit, offset) on the response of the remote
FetchThreads(resp) ==
  IF resp.kind = "ok"
    THEN [raised |-> FALSE, threads |-> IF IsList(resp.data) THEN resp.data.l ELSE <<>>]
    ELSE IF IsRequestException(resp.kind)
           THEN [raised |-> FALSE, threads |-> <<>>]
           ELSE [raised |-> TRUE, threads |-> <<>>]

\* ------------------------------------------------------ Aggregation Engine
\* get_thread_history(thread_id) on the response of the remote: a list,
\* [] for a body that is no list, [] for a failed request
GetThreadHistory(resp) ==
  IF resp.kind = "ok" /\ IsList(resp.data) THEN resp.data ELSE JList(<<>>)

NoMetadata == [raised |-> FALSE, meta |-> EmptyDict]

\* the profile get_user_metadata returns for an item that carries one
ProfileOf(metadata) ==
  [username    |-> Get(metadata, "username", JStr(<<>>)),
   email       |-> Get(metadata, "email", JStr(<<>>)),
   name        |-> Get(metadata, "name", JStr(<<>>)),
   phoneNumber |-> Get(metadata, "phoneNumber", JStr(<<>>)),
   user_id     |-> Get(metadata, "user_id", JStr(<<>>))]

\* the loop of get_user_metadata over the history items; item.get and
\* metadata.get raise AttributeError on anything that is not a dict
RECURSIVE ScanUserMetadata(_)
ScanUserMetadata(items) ==
  IF Len(items) = 0 THEN NoMetadata
  ELSE IF ~IsDict(items[1]) THEN [raised |-> TRUE, meta |-> EmptyDict]
  ELSE LET metadata == Get(items[1].d, "metadata", JDict(EmptyDict))
       IN  IF ~IsDict(metadata) THEN [raised |-> TRUE, meta |-> EmptyDict]
           ELSE IF Truthy(Get(metadata.d, "username", JNull))
                   \/ Truthy(Get(metadata.d, "email", JNull))
                  THEN [raised |-> FALSE, meta |-> ProfileOf(metadata.d)]
                  ELSE ScanUserMetadata(Tail(items))

\* get_user_metadata(thread_id), given the history fetched for the thread
GetUserMetadata(history) ==
  IF ~Truthy(history) THEN NoMetadata ELSE ScanUserMetadata(history.l)

\* the profile stored for a user whose first thread yields none
FallbackProfile(user_id) ==
  [username |-> JStr(<<>>), email |-> JStr(<<>>), name |-> JStr(<<>>),
   phoneNumber |-> JStr(<<>>), userId |-> user_id]

\* a filter that keeps every message
WithRole_AnyRole(conv, role) == conv
\* the messages of a conversation with the given role
WithRole(conv, role) == LET F(m) == m.role = role IN SelectSeq(conv, F)

PreviewLen == 100
sEllipsis == <<".", ".", ".">>
sNoConversation ==
  <<"N","o"," ","c","o","n","v","e","r","s","a","t","i","o","n"," ","f","o","u","n","d">>

\* _get_thread_convdata(thread, thread_id), given the history
ConversationData(thread, history) ==
  LET conv == ExtractConversation(history)
      common == [created_at |-> Get(thread.d, "created_at", JStr(<<>>)),
                 updated_at |-> Get(thread.d, "updated_at", JStr(<<>>)),
                 user_id    |-> Get(Get(thread.d, "metadata", JDict(EmptyDict)).d,
                                    "user_id", JStr(<<>>))]
  IN  IF Len(conv) > 0
        THEN [total_messages |-> Len(conv),
              user_messages  |-> Len(WithRole(conv, rUser)),
              ai_messages    |-> Len(WithRole(conv, rAI)),
              first_message  |-> Prefix(conv[1].content, PreviewLen) \o sEllipsis,
              last_message   |-> Prefix(conv[Len(conv)].content, PreviewLen) \o sEllipsis,
              created_at     |-> common.created_at,
              updated_at     |-> common.updated_at,
              user_id        |-> common.user_id,
              conversation   |-> conv]
        ELSE [total_messages |-> 0, user_messages |-> 0, ai_messages |-> 0,
              first_message  |-> sNoConversation,
              last_message   |-> sNoConversation,
              created_at     |-> common.created_at,
              updated_at     |-> common.updated_at,
              user_id        |-> common.user_id,
              conversation   |-> <<>>]

\* analyze_tool_calling_stats(history_data) as one call
AnalyzeToolCallingStats(history) ==
  IF ~Truthy(history) \/ ~IsList(history)
    THEN [raised |-> FALSE,
          stats  |-> [create_lead |-> 0, send_html_email |-> 0, total_tool_calls |-> 0,
                      tool_calls_detail |-> <<>>]]
    ELSE LET read == Chain([i \in 1..Len(history.l) |-> ItemCalls(history.l[i])])
         IN  [raised |-> read.raised,
              stats  |-> FoldCalls([ids   |-> {},
                                    stats |-> [create_lead |-> 0, send_html_email |-> 0,
                                               total_tool_calls |-> 0,
                                               tool_calls_detail |-> <<>>]],
                                   read.calls).stats]

\* round(a / b, 2) held as a number of hundredths: the nearest hundredth,
\* the even one when a / b lies exactly between two
Round2_Truncating(a, b) == (100 * a) \div b
Round2(a, b) ==
  LET q == (100 * a) \div b
      r == (100 * a) % b
  IN  IF 2 * r < b THEN q
      ELSE IF 2 * r > b THEN q + 1
      ELSE IF q % 2 = 0 THEN q ELSE q + 1

\* a guard that divides by 1 when there is nothing to divide by
Average_DivisorAtLeastOne(a, b) == Round2(a, IF b > 0 THEN b ELSE 1)
\* round(a / b, 2) if b > 0 else 0
Average(a, b) == IF b > 0 THEN Round2(a, b) ELSE 0

\* sum(...) over a list of numbers
RECURSIVE Sum(_)
Sum(numbers) ==
  IF Len(numbers) = 0 THEN 0 ELSE numbers[1] + Sum(Tail(numbers))

\* a count of the distinct thread ids of a user
ThreadCount_Distinct(thread_ids) == Cardinality({thread_ids[i] : i \in 1..Len(thread_ids)})
\* thread_count = len(thread_ids)
ThreadCount(thread_ids) == Len(thread_ids)

\* _build_user_statistics: the entry of threads_per_user for one user
UserEntry(thread_ids, user_info, convs) ==
  LET Total(tid) == IF tid \in DOMAIN convs THEN convs[tid].total_messages ELSE 0
      UserTotal(tid) == IF tid \in DOMAIN convs THEN convs[tid].user_messages ELSE 0
  IN  [thread_count        |-> ThreadCount(thread_ids),
       thread_ids          |-> thread_ids,
       user_info           |-> user_info,
       total_messages      |-> Sum([i \in 1..Len(thread_ids) |-> Total(thread_ids[i])]),
       total_user_messages |-> Sum([i \in 1..Len(thread_ids) |-> UserTotal(thread_ids[i])]),
       avg_messages_per_thread |->
         Average(Sum([i \in 1..Len(thread_ids) |-> Total(thread_ids[i])]),
                 ThreadCount(thread_ids))]

\* strftime('%Y-%m-%d') of the date held as the number YYYYMMDD
Digit(n) == Digits[n + 1]
FormatYmd(date) ==
  LET y == date \div 10000
      m == (date \div 100) % 100
      d == date % 100
  IN  << Digit(y \div 1000), Digit((y \div 100) % 10), Digit((y \div 10) % 10), Digit(y % 10),
         "-", Digit(m \div 10), Digit(m % 10), "-", Digit(d \div 10), Digit(d % 10) >>

\* the key of tool_calls_by_date for a created_at value; not ok when
\* fromisoformat raises ValueError or replace raises AttributeError
DateKey(created_at) ==
  IF IsStr(created_at) /\ FromIsoFormatDate(ReplaceZ(created_at.s)).ok
    THEN [ok |-> TRUE, key |-> FormatYmd(FromIsoFormatDate(ReplaceZ(created_at.s)).date)]
    ELSE [ok |-> FALSE, key |-> <<>>]

\* d[k] = v on a dict held as a function
Put(d, k, v) == [x \in DOMAIN d \cup {k} |-> IF x = k THEN v ELSE d[x]]

\* a bucket update that assigns the thread's counters instead of adding them
AddToDate_Overwriting(by_date, created_at, thread_tool_stats) ==
  IF Truthy(created_at) /\ DateKey(created_at).ok
    THEN Put(by_date, DateKey(created_at).key,
             [create_lead     |-> thread_tool_stats.create_lead,
              send_html_email |-> thread_tool_stats.send_html_email,
              total           |-> thread_tool_stats.total_tool_calls])
    ELSE by_date
\* "Thong ke theo ngay": the thread's counters added to the bucket of the
\* date of created_at; a missing or unparsable created_at adds nothing
AddToDate(by_date, created_at, thread_tool_stats) ==
  LET day == DateKey(created_at)
      zero == [create_lead |-> 0, send_html_email |-> 0, total |-> 0]
      old == IF day.key \in DOMAIN by_date THEN by_date[day.key] ELSE zero
  IN  IF Truthy(created_at) /\ day.ok
        THEN Put(by_date, day.key,
                 [create_lead     |-> old.create_lead + thread_tool_stats.create_lead,
                  send_html_email |-> old.send_html_email + thread_tool_stats.send_html_email,
                  total           |-> old.total + thread_tool_stats.total_tool_calls])
        ELSE by_date

\* the fold of analyze_tool_calling_for_all_threads for one thread with
\* a thread_id whose per-thread stats are thread_tool_stats
AddThreadStats(total, thread, thread_id, thread_tool_stats) ==
  LET created_at == Get(thread.d, "created_at", JStr(<<>>))
      Stamp(detail) == [call |-> detail, thread_id |-> thread_id]
  IN  [create_lead     |-> total.create_lead + thread_tool_stats.create_lead,
       send_html_email |-> total.send_html_email + thread_tool_stats.send_html_email,
       total_tool_calls |-> total.total_tool_calls + thread_tool_stats.total_tool_calls,
       threads_with_create_lead |->
         total.threads_with_create_lead
           + (IF thread_tool_stats.create_lead > 0 THEN 1 ELSE 0),
       threads_with_send_html_email |->
         total.threads_with_send_html_email
           + (IF thread_tool_stats.send_html_email > 0 THEN 1 ELSE 0),
       threads_with_any_tool |->
         total.threads_with_any_tool
           + (IF thread_tool_stats.total_tool_calls > 0 THEN 1 ELSE 0),
       tool_calls_by_thread |->
         Put(total.tool_calls_by_thread, thread_id,
             [thread_metadata |-> Get(thread.d, "metadata", JDict(EmptyDict)),
              created_at |-> created_at,
              updated_at |-> Get(thread.d, "updated_at", JStr(<<>>)),
              tool_stats |-> thread_tool_stats]),
       tool_calls_by_date |-> AddToDate(total.tool_calls_by_date, created_at, thread_tool_stats),
       detailed_calls |->
         total.detailed_calls
           \o [i \in 1..Len(thread_tool_stats.tool_calls_detail) |->
                 Stamp(thread_tool_stats.tool_calls_detail[i])]]

\* analyze_threads_by_date: the loop that counts the threads per date of
\* updated_at; a missing, empty or unparsable updated_at skips the thread
RECURSIVE CountByDate(_, _)
CountByDate(counts, threads) ==
  IF Len(threads) = 0 THEN counts
  ELSE LET updated_at == Get(threads[1].d, "updated_at", JNull)
           day == DateKey(updated_at)
       IN  CountByDate(IF Truthy(updated_at) /\ day.ok
                         THEN Put(counts, day.key,
                                  IF day.key \in DOMAIN counts THEN counts[day.key] + 1 ELSE 1)
                         ELSE counts,
                       Tail(threads))

\* the keys of a dict in descending string order
RECURSIVE SortedKeys_Descending(_)
SortedKeys_Descending(keys) ==
  IF keys = {} THEN <<>>
  ELSE LET last == CHOOSE x \in keys : \A y \in keys : StrLeq(y, x)
       IN  <<last>> \o SortedKeys_Descending(keys \ {last})
\* sorted(...) on the items of a dict: the keys in ascending string order
RECURSIVE SortedKeys(_)
SortedKeys(keys) ==
  IF keys = {} THEN <<>>
  ELSE LET first == CHOOSE x \in keys : \A y \in keys : StrLeq(x, y)
       IN  <<first>> \o SortedKeys(keys \ {first})

\* analyze_threads_by_date(threads): the dict in its iteration order, as
\* the list of its items
AnalyzeThreadsByDate(threads) ==
  LET counts == CountByDate(<<>>, threads)
      keys == SortedKeys(DOMAIN counts)
  IN  [i \in 1..Len(keys) |-> [date |-> keys[i], count |-> counts[keys[i]]]]

\* the index of the last item of the largest count
PeakIndex_Last(items) ==
  CHOOSE i \in 1..Len(items) :
    /\ \A j \in 1..Len(items) : items[j].count <= items[i].count
    /\ \A j \in (i + 1)..Len(items) : items[j].count < items[i].count
\* max(threads_by_date.items(), key=lambda x: x[1]): the first item of
\* the largest count
PeakIndex(items) ==
  CHOOSE i \in 1..Len(items) :
    /\ \A j \in 1..Len(items) : items[j].count <= items[i].count
    /\ \A j \in 1..(i - 1) : items[j].count < items[i].count

\* peak_day and peak_threads of generate_report
PeakOf(threads_by_date) ==
  IF Len(threads_by_date) > 0
    THEN [peak_day     |-> threads_by_date[PeakIndex(threads_by_date)].date,
          peak_threads |-> threads_by_date[PeakIndex(threads_by_date)].count]
    ELSE [peak_day |-> <<>>, peak_threads |-> 0]

\* the default top_n of get_top_users
TopN == 10

\* an insertion that puts a user before the users of equal thread_count
InsertByCount_Unstable(sorted, item) ==
  LET n == Cardinality({i \in 1..Len(sorted) : sorted[i].thread_count > item.thread_count})
  IN  SubSeq(sorted, 1, n) \o <<item>> \o SubSeq(sorted, n + 1, Len(sorted))
\* sorted(..., key=thread_count, reverse=True): descending, and stable
InsertByCount(sorted, item) ==
  LET n == Cardinality({i \in 1..Len(sorted) : sorted[i].thread_count >= item.thread_count})
  IN  SubSeq(sorted, 1, n) \o <<item>> \o SubSeq(sorted, n + 1, Len(sorted))

RECURSIVE SortByCount(_)
SortByCount(items) ==
  IF Len(items) = 0 THEN <<>>
  ELSE InsertByCount(SortByCount(SubSeq(items, 1, Len(items) - 1)), items[Len(items)])

\* get_top_users(threads_per_user, top_n) on the items of threads_per_user
\* in their insertion order
GetTopUsers(items, top_n) ==
  LET sorted_users == SortByCount(items)
  IN  [i \in 1..Min(top_n, Len(sorted_users)) |->
         [user_id      |-> sorted_users[i].user_id,
          thread_count |-> sorted_users[i].thread_count,
          thread_ids   |-> sorted_users[i].thread_ids,
          user_info    |-> sorted_users[i].user_info]]

\* the message totals of generate_report over threads_per_user
SummaryOf(threads, total_users, threads_per_user, order, threads_by_date) ==
  LET total_messages ==
        Sum([i \in 1..Len(order) |-> threads_per_user[order[i]].total_messages])
      total_user_messages ==
        Sum([i \in 1..Len(order) |-> threads_per_user[order[i]].total_user_messages])
  IN  [total_threads  |-> Len(threads),
       total_users    |-> total_users,
       avg_threads_per_user |-> Average(Len(threads), total_users),
       total_messages |-> total_messages,
       user_messages  |-> total_user_messages,
       ai_messages    |-> total_messages - total_user_messages,
       avg_messages_per_user   |-> Average(total_messages, total_users),
       avg_messages_per_thread |-> Average(total_messages, Len(threads)),
       peak_day       |-> PeakOf(threads_by_date).peak_day,
       peak_threads   |-> PeakOf(threads_by_date).peak_threads]

\* ------------------------------------------------------- enumerated inputs
Date0101 == <<"2","0","2","4","-","0","1","-","0","1">>
Date0102 == <<"2","0","2","4","-","0","1","-","0","2">>
Date0103 == <<"2","0","2","4","-","0","1","-","0","3">>
Time1000 == <<"T","1","0",":","0","0",":","0","0">>
Time2330 == <<"T","2","3",":","3","0",":","0","0">>
\* two instants of the same second, and one of the next day
TsA == Date0101 \o Time1000 \o <<".","1","1","1","1","1","1">>
TsB == Date0101 \o Time1000 \o <<".","2","2","2","2","2","2">>
TsC == Date0102 \o Time1000 \o <<".","0","0","0","0","0","0">>

sHi    == <<"H","i">>
sHello == <<"H","e","l","l","o">>
\* two texts of 121 characters that differ at character 61 only
LongX  == Rep("a", 60) \o <<"X">> \o Rep("b", 60)
LongY  == Rep("a", 60) \o <<"Y">> \o Rep("b", 60)

TypeMsg(type, content) == JDict([type |-> JStr(type), content |-> content])
RoleMsg(role, content) == JDict([role |-> JStr(role), content |-> content])

\* raw message candidates: valid ones, other roles, other letter cases,
\* empty content, fallback keys, list and dict content, a non-mapping
Candidates ==
  { TypeMsg(sHuman, JStr(sHi)),
    TypeMsg(sAi, JStr(sHello)),
    TypeMsg(<<"s","y","s","t","e","m">>, JStr(sHi)),
    TypeMsg(<<"H","u","m","a","n">>, JStr(sHi)),
    RoleMsg(<<"U","S","E","R">>, JStr(sHello)),
    TypeMsg(sUser, JStr(<<" ", " ">>)),
    JDict([role |-> JStr(sAssistant), text |-> JStr(<<" ","o","k"," ">>)]),
    JDict([type |-> JStr(sHuman), role |-> JStr(sAi), message |-> JStr(LongX)]),
    TypeMsg(sAi, JList(<<JStr(<<"a">>), JStr(<<>>), JStr(<<"b">>)>>)),
    TypeMsg(sUser, JDict(EmptyDict)),
    JStr(sHi) }

\* all sequences over S of length at most n
SeqsUpTo(S, n) == UNION { [1..k -> S] : k \in 0..n }

MessageLists == SeqsUpTo(Candidates, MaxMsgs)

ItemOf(values, created_at) ==
  JDict([values |-> values, created_at |-> JStr(created_at)])

\* the shapes in which a message list is embedded in the first history item
FirstItems(msgs) ==
  { ItemOf(JDict([messages |-> JList(msgs)]), TsA),
    ItemOf(JDict([state |-> JNull, chat_history |-> JList(msgs)]), TsA),
    ItemOf(JList(<<JDict([messages |-> JList(msgs)]), JStr(sHi),
                   JDict([Dialog |-> JList(msgs)])>>), TsB),
    JDict([values |-> JDict([messages |-> JList(msgs)])]) }

\* later history items: the same second, a later day, and a non-mapping
LaterItems ==
  { ItemOf(JDict([messages |-> JList(<<TypeMsg(sHuman, JStr(sHi))>>)]), TsB),
    ItemOf(JDict([messages |-> JList(<<TypeMsg(sAi, JStr(sHello))>>)]), TsC),
    JStr(sHi) }

\* a history of one item for every embedding of every message list, and
\* longer histories that continue a few first items with LaterItems
GoodFirstItem ==
  ItemOf(JDict([messages |-> JList(<<TypeMsg(sHuman, JStr(sHi)), TypeMsg(sAi, JStr(sHello))>>)]), TsA)
Histories ==
  { JList(<<first>>) : first \in UNION { FirstItems(msgs) : msgs \in MessageLists } }
  \cup { JList(<<first>> \o rest) :
           first \in {GoodFirstItem, JStr(sHi), ItemOf(JNull, TsA)},
           rest \in SeqsUpTo(LaterItems, MaxHistoryLen - 1) }
  \cup { JNull, JList(<<>>),
         JList(<<ItemOf(JDict([messages |-> TypeMsg(sHuman, JStr(sHi))]), TsA)>>) }

\* tool-call descriptors of the two shapes
sC1 == <<"c","1">>
sC2 == <<"c","2">>
sC3 == <<"c","3">>
sC4 == <<"c","4">>
sSearch == <<"s","e","a","r","c","h">>
sArgs == <<"{","}">>

KwCall(id, name) ==
  JDict([id |-> JStr(id),
         function |-> JDict([name |-> JStr(name), arguments |-> JStr(sArgs)])])
DrCall(id, name) ==
  JDict([id |-> JStr(id), name |-> JStr(name), args |-> JDict(EmptyDict)])

KwMsg(calls) ==
  JDict([type |-> JStr(sAi), id |-> JStr(<<"m","1">>),
         additional_kwargs |-> JDict([tool_calls |-> JList(calls)])])
DrMsg(calls) ==
  JDict([type |-> JStr(sAi), id |-> JStr(<<"m","2">>), tool_calls |-> JList(calls)])
BothMsg(kw, dr) ==
  JDict([type |-> JStr(sAi), id |-> JStr(<<"m","3">>),
         additional_kwargs |-> JDict([tool_calls |-> JList(kw)]),
         tool_calls |-> JList(dr)])

ToolItem(msgs, created_at) ==
  JDict([values |-> JDict([messages |-> JList(msgs)]), created_at |-> JStr(created_at)])

\* well-formed history items: both shapes, repeated ids, other names,
\* descriptors without id or name, entries of the wrong type, and an
\* additional_kwargs.tool_calls that is a string
GoodToolItems ==
  { ToolItem(<<KwMsg(<<KwCall(sC1, sCreateLead)>>)>>, TsA),
    ToolItem(<<KwMsg(<<KwCall(sC1, sCreateLead), KwCall(sC2, sSendHtmlEmail)>>)>>, TsC),
    ToolItem(<<DrMsg(<<DrCall(sC1, sCreateLead)>>)>>, TsC),
    ToolItem(<<DrMsg(<<DrCall(sC3, sCreateLead), DrCall(sC3, sCreateLead)>>)>>, TsA),
    ToolItem(<<BothMsg(<<KwCall(sC2, sSendHtmlEmail)>>, <<DrCall(sC4, sCreateLead)>>)>>, TsA),
    ToolItem(<<BothMsg(<<>>, <<DrCall(sC4, sCreateLead)>>)>>, TsA),
    ToolItem(<<JDict([type |-> JStr(sAi), id |-> JStr(<<"m","4">>),
                      additional_kwargs |-> JDict([tool_calls |-> JStr(sHi)]),
                      tool_calls |-> JList(<<DrCall(sC3, sSearch)>>)])>>, TsC),
    ToolItem(<<KwMsg(<<KwCall(sC4, sSearch)>>), JStr(sHi),
               KwMsg(<<KwCall(<<>>, sCreateLead), KwCall(sC2, <<>>), JStr(sHi)>>)>>, TsA),
    ToolItem(<<KwMsg(<<KwCall(sC1, sSendHtmlEmail)>>)>>, TsC),
    JDict([values |-> JDict([messages |-> JNull]), created_at |-> JStr(TsA)]),
    JDict([created_at |-> JStr(TsA)]) }

\* loosely-typed history items: a non-mapping item, `values` as a sequence,
\* additional_kwargs and function that are null
BadToolItems ==
  { JStr(sHi),
    JDict([values |-> JList(<<JDict([messages |-> JList(<<KwMsg(<<KwCall(sC1, sCreateLead)>>)>>)])>>),
           created_at |-> JStr(TsA)]),
    ToolItem(<<JDict([type |-> JStr(sAi), additional_kwargs |-> JNull])>>, TsA),
    ToolItem(<<KwMsg(<<JDict([id |-> JStr(sC1), function |-> JNull])>>)>>, TsA) }

\* longest history list enumerated for the tool-call analyzer
MaxToolItems == 2

ToolHistories ==
  { JList(items) : items \in SeqsUpTo(GoodToolItems \cup BadToolItems, MaxToolItems) }
  \cup {JNull}

\* thread records of the search endpoint, by the shape of updated_at
TsZ      == Date0103 \o Time2330 \o <<"Z">>
TsOffset == Date0102 \o Time2330 \o <<"-","0","5",":","0","0">>
TsMonth13 == <<"2","0","2","4","-","1","3","-","0","1">> \o Time1000
sGarbage == <<"n","/","a">>

Rec(id, updated_at) == JDict([thread_id |-> JStr(id), updated_at |-> updated_at])

\* the pages the remote may serve (fewer records than the page size)
Pages ==
  { << Rec(<<"t","1">>, JStr(TsA)), Rec(<<"t","2">>, JStr(TsC)) >>,
    << Rec(<<"t","3">>, JStr(TsZ)), JDict([thread_id |-> JStr(<<"t","4">>)]),
       Rec(<<"t","5">>, JStr(sGarbage)) >>,
    << Rec(<<"t","6">>, JNull), Rec(<<"t","7">>, JStr(TsOffset)),
       Rec(<<"t","8">>, JStr(TsMonth13)) >>,
    << Rec(<<"t","9">>, JStr(Date0102)) >>,
    << Rec(<<"t","1","0">>, JStr(<<>>)), Rec(<<"t","1","1">>, JList(<<JStr(TsA)>>)),
       Rec(<<"t","1","2">>, JStr(Date0103 \o Time1000)) >> }

\* what one request may come back with: a page, an empty page, a body
\* that is not a list, or one of the three failures
PageResponses == { [kind |-> "ok", data |-> JList(p)] : p \in Pages }
EndResponses ==
  { [kind |-> "ok", data |-> JList(<<>>)],
    [kind |-> "ok", data |-> JDict([detail |-> JStr(sGarbage)])],
    [kind |-> "connection_error", data |-> JNull],
    [kind |-> "http_error", data |-> JNull],
    [kind |-> "invalid_json", data |-> JNull] }

\* the most non-empty pages the remote serves before it runs out
MaxPages == 2

\* the date arguments of fetch_all_threads
DateArgs == { JNull, JStr(<<>>), JStr(Date0102), JStr(Date0103) }

\* user ids, thread ids and the histories the remote holds for them
uA == <<"u","A">>
uB == <<"u","B">>
t1 == <<"t","1">>
t2 == <<"t","2">>
t3 == <<"t","3">>
t4 == <<"t","4">>
t5 == <<"t","5">>
t6 == <<"t","6">>
sAlice == <<"a","l","i","c","e">>
sBobMail == <<"b","o","b","@","x">>

AiToolMsg(calls) ==
  JDict([type |-> JStr(sAi), content |-> JStr(sHello), id |-> JStr(<<"m","1">>),
         additional_kwargs |-> JDict([tool_calls |-> JList(calls)])])

\* t1: one item with a profile, a User and an AI message, one create_lead
HistoryT1 ==
  JList(<< JDict([created_at |-> JStr(TsA),
                  metadata   |-> JDict([username |-> JStr(sAlice), user_id |-> JStr(uA)]),
                  values     |-> JDict([messages |-> JList(<<TypeMsg(sHuman, JStr(sHi)),
                                                            AiToolMsg(<<KwCall(sC1, sCreateLead)>>)>>)])]) >>)
\* t4: a first item without profile and a later item with one; the call
\* ids of the later item repeat c1 of thread t1
HistoryT4 ==
  JList(<< JDict([created_at |-> JStr(TsA),
                  values     |-> JDict([messages |-> JList(<<TypeMsg(sHuman, JStr(sHi))>>)])]),
           JDict([created_at |-> JStr(TsC),
                  metadata   |-> JDict([email |-> JStr(sBobMail)]),
                  values     |-> JDict([messages |-> JList(<<TypeMsg(sHuman, JStr(sHi)),
                                                            AiToolMsg(<<KwCall(sC1, sCreateLead),
                                                                        KwCall(sC2, sSendHtmlEmail)>>)>>)])]) >>)
\* t6: an item without profile and without messages
HistoryT6 ==
  JList(<< JDict([created_at |-> JStr(TsA), metadata |-> JDict(EmptyDict),
                  values |-> JDict(EmptyDict)]) >>)

\* the response of the history endpoint for a thread id: t2 has an empty
\* history, the request for t3 fails, the history of t5 holds a
\* non-mapping item
RemoteHistory(thread_id) ==
  CASE thread_id = t1 -> [kind |-> "ok", data |-> HistoryT1]
    [] thread_id = t2 -> [kind |-> "ok", data |-> JList(<<>>)]
    [] thread_id = t3 -> [kind |-> "connection_error", data |-> JNull]
    [] thread_id = t4 -> [kind |-> "ok", data |-> HistoryT4]
    [] thread_id = t5 -> [kind |-> "ok", data |-> JList(<<JStr(sHi)>>)]
    [] thread_id = t6 -> [kind |-> "ok", data |-> HistoryT6]
    [] OTHER          -> [kind |-> "http_error", data |-> JNull]

Thread(thread_id, user_id, created_at, updated_at) ==
  JDict([thread_id  |-> JStr(thread_id),
         metadata   |-> JDict([user_id |-> JStr(user_id)]),
         created_at |-> JStr(created_at),
         updated_at |-> JStr(updated_at)])

\* thread records: two users, a record without thread_id, a record
\* without user_id and updated_at whose created_at is unparsable, an
\* unparsable updated_at
ThreadRecords ==
  { Thread(t1, uA, TsA, TsA),
    Thread(t2, uA, TsC, TsC),
    Thread(t3, uB, TsC, TsC),
    Thread(t4, uB, TsZ, TsZ),
    Thread(t5, uA, TsA, TsC),
    Thread(t6, uA, TsC, sGarbage),
    JDict([metadata |-> JDict([user_id |-> JStr(uB)]),
           created_at |-> JStr(TsA), updated_at |-> JStr(TsA)]),
    JDict([thread_id |-> JStr(t1), metadata |-> JDict(EmptyDict),
           created_at |-> JStr(sGarbage)]) }

\* longest thread list enumerated for generate_report
MaxThreads == 3

ThreadLists == SeqsUpTo(ThreadRecords, MaxThreads)

\* users for get_top_users, in the insertion order of threads_per_user
uC == <<"u","C">>
TopUserIds == << JStr(uA), JStr(uB), JStr(uC), JStr(<<"u","D">>) >>

\* most users, and most threads of a user, enumerated for get_top_users
MaxTopUsers == 3
MaxThreadCount == 3

\* the items of a threads_per_user dict of n users with the thread counts
\* given; the thread ids of a user name the user and number the threads
TopItems(counts) ==
  [i \in 1..Len(counts) |->
     [user_id      |-> TopUserIds[i],
      thread_count |-> counts[i],
      thread_ids   |-> [k \in 1..counts[i] |-> JStr(TopUserIds[i].s \o <<Digit(k)>>)],
      user_info    |-> FallbackProfile(TopUserIds[i])]]

TopInputs == { TopItems(counts) : counts \in SeqsUpTo(1..MaxThreadCount, MaxTopUsers) }
TopNs == { 0, 1, 2, TopN }

\* configurations for the constructor: no secrets store, or a store with
\* or without THREAD_API_URL
sUrl1 == <<"h","t","t","p",":","/","/","a","p","i">>
sUrl2 == <<"h","t","t","p",":","/","/","a","r","g">>
sReports == <<"r","e","p","o","r","t","s">>
sOut == <<"o","u","t">>
SecretStores ==
  { [t |-> "no_store"],
    JDict(EmptyDict),
    JDict([ODOO_URL |-> JStr(sUrl2)]),
    JDict([THREAD_API_URL |-> JStr(sUrl1)]),
    JDict([THREAD_API_URL |-> JStr(sUrl1), ODOO_URL |-> JStr(sUrl2)]) }

\* largest max_workers argument enumerated
MaxWorkersArg == 2

CtorArgs ==
  [base_url : {JNull, JStr(sUrl2)},
   output_base_dir : {sReports, sOut},
   max_workers : 1..MaxWorkersArg]

\* thread records handed to process_threads_parallel: threads with
\* messages, a thread with an empty history, a record without thread_id,
\* and an entry that is not a mapping
ParThreadRecords ==
  { Thread(t1, uA, TsA, TsA),
    Thread(t4, uB, TsZ, TsZ),
    Thread(t2, uA, TsC, TsC),
    JDict([metadata |-> JDict([user_id |-> JStr(uB)]),
           created_at |-> JStr(TsA), updated_at |-> JStr(TsA)]),
    JStr(sHi) }

\* longest thread list enumerated for process_threads_parallel
MaxParThreads == 2

ParThreadLists == SeqsUpTo(ParThreadRecords, MaxParThreads)

\* ------------------------------------------------------------------ state
VARIABLES
  history_data,        \* the argument of extract_convfrom_history
  conv_pc,             \* "start", "collected", "done" ("idle" outside SpecConv)
  collected,           \* the list `conversation` when the loop is left
  conversation,        \* the returned conversation
  conv_run,            \* 1 during the first call on history_data, 2 during the second
  previous,            \* the conversation the first call returned
  tool_history,        \* the argument of analyze_tool_calling_stats
  tool_pc,             \* "start", "loop", "done", "raised" ("idle" outside SpecTool)
  tool_i,              \* the index of the next history item of the loop
  processed_call_ids,  \* the set processed_call_ids
  tool_stats,          \* the dict tool_stats
  date_from,           \* the arguments of fetch_all_threads
  date_to,
  fetch_pc,            \* "loop", "await", "done", "raised" ("idle" outside SpecFetch)
  offset,              \* the local offset
  all_threads,         \* the list all_threads
  requests,            \* the search requests sent so far: (limit, offset)
  received,            \* what came back: the response kind and fetch_threads' result
  rep_threads,         \* the argument threads of generate_report
  include_tool_analysis,
  rep_pc,              \* "users", "tools", "done", "raised" ("idle" outside SpecReport)
  rep_i,               \* the index of the next thread of the running loop
  user_threads,        \* user_id -> list of thread ids
  user_order,          \* the keys of user_threads in insertion order
  user_details,        \* user_id -> profile
  thread_conversations,\* thread_id -> conversation data
  report,              \* the report built after the loop over the threads
  total_stats,         \* total_stats of analyze_tool_calling_for_all_threads
  top_items,           \* the items of threads_per_user given to get_top_users
  top_n,               \* its argument top_n
  top_pc,              \* "start", "done" ("idle" outside SpecTop)
  top_users,           \* what get_top_users returns
  secrets,             \* the streamlit secrets store: NoStore or a dict
  ctor_args,           \* the arguments of ThreadAnalytics(...)
  ctor_pc,             \* "start", "configured", "constructed", "raised" ("idle" elsewhere)
  engine,              \* the attributes of the instance under construction
  existing_dirs,       \* the directories that exist
  par_threads,         \* the argument of process_threads_parallel
  max_workers,         \* self.max_workers, the size of the pool
  par_pc,              \* "start", "collect", "done" ("idle" outside SpecPar)
  returns,             \* per input thread: what its call of _process_single_thread ends with
  futures,             \* per input thread: the state and outcome of its future
  results,             \* the list `results`
  processed            \* the counter `processed`

convVars == <<history_data, conv_pc, collected, conversation, conv_run, previous>>
toolVars == <<tool_history, tool_pc, tool_i, processed_call_ids, tool_stats>>
fetchVars == <<date_from, date_to, fetch_pc, offset, all_threads, requests, received>>
repVars == <<rep_threads, include_tool_analysis, rep_pc, rep_i, user_threads, user_order,
             user_details, thread_conversations, report, total_stats>>
topVars == <<top_items, top_n, top_pc, top_users>>
ctorVars == <<secrets, ctor_args, ctor_pc, engine, existing_dirs>>
parVars == <<par_threads, max_workers, par_pc, returns, futures, results, processed>>
vars == <<convVars, toolVars, fetchVars, repVars, topVars, ctorVars, parVars>>

TopIdle ==
  /\ top_items = <<>>
  /\ top_n = 0
  /\ top_pc = "idle"
  /\ top_users = <<>>

NoStore == [t |-> "no_store"]
NoEngine == [constructed |-> FALSE]
CtorIdle ==
  /\ secrets = NoStore
  /\ ctor_args = <<>>
  /\ ctor_pc = "idle"
  /\ engine = NoEngine
  /\ existing_dirs = {}

ParIdle ==
  /\ par_threads = <<>>
  /\ max_workers = 0
  /\ par_pc = "idle"
  /\ returns = <<>>
  /\ futures = <<>>
  /\ results = <<>>
  /\ processed = 0

NoReport == [summary |-> [total_threads |-> 0], threads_per_user |-> <<>>]
EmptyTotalStats ==
  [create_lead |-> 0, send_html_email |-> 0, total_tool_calls |-> 0,
   threads_with_create_lead |-> 0, threads_with_send_html_email |-> 0,
   threads_with_any_tool |-> 0,
   tool_calls_by_thread |-> <<>>, tool_calls_by_date |-> <<>>, detailed_calls |-> <<>>]

RepIdle ==
  /\ rep_threads = <<>>
  /\ include_tool_analysis = FALSE
  /\ rep_pc = "idle"
  /\ rep_i = 0
  /\ user_threads = <<>>
  /\ user_order = <<>>
  /\ user_details = <<>>
  /\ thread_conversations = <<>>
  /\ report = NoReport
  /\ total_stats = EmptyTotalStats

EmptyToolStats ==
  [create_lead |-> 0, send_html_email |-> 0, total_tool_calls |-> 0,
   tool_calls_detail |-> <<>>]

ConvIdle ==
  /\ history_data = JNull
  /\ conv_pc = "idle"
  /\ collected = <<>>
  /\ conversation = <<>>
  /\ conv_run = 0
  /\ previous = <<>>

FetchIdle ==
  /\ date_from = JNull
  /\ date_to = JNull
  /\ fetch_pc = "idle"
  /\ offset = 0
  /\ all_threads = <<>>
  /\ requests = <<>>
  /\ received = <<>>

ToolIdle ==
  /\ tool_history = JNull
  /\ tool_pc = "idle"
  /\ tool_i = 0
  /\ processed_call_ids = {}
  /\ tool_stats = EmptyToolStats

\* ------------------------------------------- extract_convfrom_history
ConvInit ==
  /\ history_data \in Histories
  /\ conv_pc = "start"
  /\ collected = <<>>
  /\ conversation = <<>>
  /\ conv_run = 1
  /\ previous = <<>>
  /\ ToolIdle
  /\ FetchIdle
  /\ RepIdle
  /\ TopIdle
  /\ CtorIdle
  /\ ParIdle

\* the guard on history_data: nothing to read, return []
ConvReturnEmpty ==
  /\ conv_pc = "start"
  /\ ~Truthy(history_data) \/ ~IsList(history_data)
  /\ conv_pc' = "done"
  /\ conversation' = ExtractConversation(history_data)
  /\ history_data' = InputAfterRun(history_data)
  /\ UNCHANGED <<collected, conv_run, previous, toolVars, fetchVars, repVars, topVars, ctorVars, parVars>>

\* the loop over the history items
ConvCollect ==
  /\ conv_pc = "start"
  /\ Truthy(history_data) /\ IsList(history_data)
  /\ collected' = CollectConversation(history_data.l)
  /\ conv_pc' = "collected"
  /\ UNCHANGED <<history_data, conversation, conv_run, previous, toolVars, fetchVars, repVars, topVars, ctorVars, parVars>>

\* conversation.sort(...) and return
ConvSort ==
  /\ conv_pc = "collected"
  /\ conversation' = ExtractConversation(history_data)
  /\ history_data' = InputAfterRun(history_data)
  /\ conv_pc' = "done"
  /\ UNCHANGED <<collected, conv_run, previous, toolVars, fetchVars, repVars, topVars, ctorVars, parVars>>

\* the caller passes the same history_data to a second call
ConvAgain ==
  /\ conv_pc = "done"
  /\ conv_run = 1
  /\ conv_run' = 2
  /\ previous' = conversation
  /\ conv_pc' = "start"
  /\ collected' = <<>>
  /\ conversation' = <<>>
  /\ UNCHANGED <<history_data, toolVars, fetchVars, repVars, topVars, ctorVars, parVars>>

ConvNext == ConvReturnEmpty \/ ConvCollect \/ ConvSort \/ ConvAgain

SpecConv == ConvInit /\ [][ConvNext]_vars

\* ----------------------------------------------- analyze_tool_calling_stats
ToolInit ==
  /\ tool_history \in ToolHistories
  /\ tool_pc = "start"
  /\ tool_i = 0
  /\ processed_call_ids = {}
  /\ tool_stats = EmptyToolStats
  /\ ConvIdle
  /\ FetchIdle
  /\ RepIdle
  /\ TopIdle
  /\ CtorIdle
  /\ ParIdle

\* the guard on history_data: return the empty statistics
ToolReturnEmpty ==
  /\ tool_pc = "start"
  /\ ~Truthy(tool_history) \/ ~IsList(tool_history)
  /\ tool_pc' = "done"
  /\ UNCHANGED <<tool_history, tool_i, processed_call_ids, tool_stats, convVars, fetchVars, repVars, topVars, ctorVars, parVars>>

ToolEnterLoop ==
  /\ tool_pc = "start"
  /\ Truthy(tool_history) /\ IsList(tool_history)
  /\ tool_pc' = "loop"
  /\ tool_i' = 1
  /\ UNCHANGED <<tool_history, processed_call_ids, tool_stats, convVars, fetchVars, repVars, topVars, ctorVars, parVars>>

\* one iteration of `for item in history_data` that completes
ToolProcessItem ==
  /\ tool_pc = "loop"
  /\ tool_i <= Len(tool_history.l)
  /\ ~ItemCalls(tool_history.l[tool_i]).raised
  /\ LET st == FoldCalls([ids |-> processed_call_ids, stats |-> tool_stats],
                         ItemCalls(tool_history.l[tool_i]).calls)
     IN  /\ processed_call_ids' = st.ids
         /\ tool_stats' = st.stats
  /\ tool_i' = tool_i + 1
  /\ UNCHANGED <<tool_history, tool_pc, convVars, fetchVars, repVars, topVars, ctorVars, parVars>>

\* one iteration that raises AttributeError: the call returns nothing
ToolItemRaises ==
  /\ tool_pc = "loop"
  /\ tool_i <= Len(tool_history.l)
  /\ ItemCalls(tool_history.l[tool_i]).raised
  /\ tool_pc' = "raised"
  /\ UNCHANGED <<tool_history, tool_i, processed_call_ids, tool_stats, convVars, fetchVars, repVars, topVars, ctorVars, parVars>>

\* return tool_stats
ToolReturn ==
  /\ tool_pc = "loop"
  /\ tool_i > Len(tool_history.l)
  /\ tool_pc' = "done"
  /\ UNCHANGED <<tool_history, tool_i, processed_call_ids, tool_stats, convVars, fetchVars, repVars, topVars, ctorVars, parVars>>

ToolNext ==
  ToolReturnEmpty \/ ToolEnterLoop \/ ToolProcessItem \/ ToolItemRaises \/ ToolReturn

SpecTool == ToolInit /\ [][ToolNext]_vars

\* --------------------------------------------------------- fetch_all_threads
\* an offset advanced by the size of the page instead of the page size
NextOffset_ByCount(off, threads) == off + Len(threads)
\* offset += limit
NextOffset(off, threads) == off + Limit

\* an end-of-stream test made on the page after the date filter
StreamEnded_AfterFilter(threads, kept) == Len(kept) = 0
\* if not threads: break -- threads is the page as fetch_threads returned
\* it; kept is what the date filter leaves of it
StreamEnded(threads, kept) == Len(threads) = 0

\* the part of a page that goes into all_threads
KeptOf(threads, from, to) ==
  IF Truthy(from) \/ Truthy(to) THEN FilterThreadsByDate(threads, from, to) ELSE threads

FetchInit ==
  /\ date_from \in DateArgs
  /\ date_to \in DateArgs
  /\ fetch_pc = "loop"
  /\ offset = 0
  /\ all_threads = <<>>
  /\ requests = <<>>
  /\ received = <<>>
  /\ ConvIdle
  /\ ToolIdle
  /\ RepIdle
  /\ TopIdle
  /\ CtorIdle
  /\ ParIdle

\* the number of non-empty pages received so far
PagesServed == Cardinality({i \in 1..Len(received) : Len(received[i].threads) > 0})

\* the top of the loop: fetch_threads(limit=limit, offset=offset) posts
FetchSend ==
  /\ fetch_pc = "loop"
  /\ requests' = Append(requests, [limit |-> Limit, offset |-> offset])
  /\ fetch_pc' = "await"
  /\ UNCHANGED <<date_from, date_to, offset, all_threads, received, convVars, toolVars, repVars, topVars, ctorVars, parVars>>

\* a non-empty page comes back: filter, extend, advance the offset
FetchReceivePage ==
  /\ fetch_pc = "await"
  /\ PagesServed < MaxPages
  /\ \E resp \in PageResponses :
       LET threads == FetchThreads(resp).threads
           kept == KeptOf(threads, date_from, date_to)
       IN  /\ ~StreamEnded(threads, kept)
           /\ received' = Append(received, [kind |-> resp.kind, threads |-> threads])
           /\ all_threads' = all_threads \o kept
           /\ offset' = NextOffset(offset, threads)
  /\ fetch_pc' = "loop"
  /\ UNCHANGED <<date_from, date_to, requests, convVars, toolVars, repVars, topVars, ctorVars, parVars>>

\* an empty page, a body that is no list or a failed request comes back:
\* fetch_threads returns [] and the loop breaks, unless the failure is
\* not caught and propagates
FetchReceiveEnd ==
  /\ fetch_pc = "await"
  /\ \E resp \in EndResponses \cup (IF PagesServed < MaxPages THEN PageResponses ELSE {}) :
       /\ FetchThreads(resp).raised
            \/ StreamEnded(FetchThreads(resp).threads,
                           KeptOf(FetchThreads(resp).threads, date_from, date_to))
       /\ received' = Append(received, [kind |-> resp.kind, threads |-> FetchThreads(resp).threads])
       /\ fetch_pc' = IF FetchThreads(resp).raised THEN "raised" ELSE "done"
  /\ UNCHANGED <<date_from, date_to, offset, all_threads, requests, convVars, toolVars, repVars, topVars, ctorVars, parVars>>

FetchNext == FetchSend \/ FetchReceivePage \/ FetchReceiveEnd

\* the loop runs on its own thread with nothing to wait for but the
\* response of the request it sent
SpecFetch == FetchInit /\ [][FetchNext]_vars /\ WF_vars(FetchNext)

\* ---------------------------------------------------------- generate_report
RepInit ==
  /\ rep_threads \in ThreadLists
  /\ include_tool_analysis \in BOOLEAN
  /\ rep_pc = "users"
  /\ rep_i = 1
  /\ user_threads = <<>>
  /\ user_order = <<>>
  /\ user_details = <<>>
  /\ thread_conversations = <<>>
  /\ report = NoReport
  /\ total_stats = EmptyTotalStats
  /\ ConvIdle
  /\ ToolIdle
  /\ FetchIdle
  /\ TopIdle
  /\ CtorIdle
  /\ ParIdle

UserIdOf(thread) == Get(Get(thread.d, "metadata", JDict(EmptyDict)).d, "user_id", JNull)
ThreadIdOf(thread) == Get(thread.d, "thread_id", JNull)
HistoryOf(thread_id) ==
  GetThreadHistory(IF IsStr(thread_id) THEN RemoteHistory(thread_id.s)
                   ELSE [kind |-> "http_error", data |-> JNull])

repInputs == <<rep_threads, include_tool_analysis>>

\* analyze_users_comprehensive: a thread without user_id or thread_id
RepSkipThread ==
  /\ rep_pc = "users"
  /\ rep_i <= Len(rep_threads)
  /\ ~Truthy(UserIdOf(rep_threads[rep_i])) \/ ~Truthy(ThreadIdOf(rep_threads[rep_i]))
  /\ rep_i' = rep_i + 1
  /\ UNCHANGED <<repInputs, rep_pc, user_threads, user_order, user_details,
                 thread_conversations, report, total_stats>>
  /\ UNCHANGED <<convVars, toolVars, fetchVars, topVars, ctorVars, parVars>>

\* a count of the threads that have a user
TotalUsers_PerThread(threads_of) ==
  Cardinality(UNION { {<<u, i>> : i \in 1..Len(threads_of[u])} : u \in DOMAIN threads_of })
\* len(total_users): the set holds the keys of user_threads
TotalUsers(threads_of) == Cardinality(DOMAIN threads_of)

\* user_threads[user_id].append(thread_id)
AppendThread(threads_of, user_id, thread_id) ==
  Put(threads_of, user_id,
      IF user_id \in DOMAIN threads_of THEN Append(threads_of[user_id], thread_id)
      ELSE <<thread_id>>)

\* a store that replaces a stored profile when a later thread has metadata
RememberProfile_Upgrading(details, user_id, meta) ==
  IF meta # EmptyDict THEN Put(details, user_id, meta)
  ELSE IF user_id \in DOMAIN details THEN details
  ELSE Put(details, user_id, FallbackProfile(user_id))
\* if user_id not in user_details: user_details[user_id] = metadata or fallback
RememberProfile(details, user_id, meta) ==
  IF user_id \in DOMAIN details THEN details
  ELSE Put(details, user_id, IF meta # EmptyDict THEN meta ELSE FallbackProfile(user_id))

\* analyze_users_comprehensive: one iteration for a thread with both ids
RepUserThread ==
  /\ rep_pc = "users"
  /\ rep_i <= Len(rep_threads)
  /\ LET thread == rep_threads[rep_i]
         user_id == UserIdOf(thread)
         thread_id == ThreadIdOf(thread)
         user_metadata == GetUserMetadata(HistoryOf(thread_id))
         known == user_id \in DOMAIN user_details
     IN  /\ Truthy(user_id) /\ Truthy(thread_id)
         /\ user_threads' = AppendThread(user_threads, user_id, thread_id)
         /\ user_order' = IF user_id \in DOMAIN user_threads THEN user_order
                          ELSE Append(user_order, user_id)
         /\ IF ~known /\ user_metadata.raised
              THEN /\ rep_pc' = "raised"
                   /\ UNCHANGED <<rep_i, user_details, thread_conversations>>
              ELSE /\ user_details' = RememberProfile(user_details, user_id, user_metadata.meta)
                   /\ thread_conversations' =
                        Put(thread_conversations, thread_id,
                            ConversationData(thread, HistoryOf(thread_id)))
                   /\ rep_i' = rep_i + 1
                   /\ UNCHANGED rep_pc
  /\ UNCHANGED <<repInputs, report, total_stats>>
  /\ UNCHANGED <<convVars, toolVars, fetchVars, topVars, ctorVars, parVars>>

\* _build_user_statistics and the report of generate_report
RepBuild ==
  /\ rep_pc = "users"
  /\ rep_i > Len(rep_threads)
  /\ LET threads_per_user ==
           [u \in DOMAIN user_threads |->
              UserEntry(user_threads[u],
                        IF u \in DOMAIN user_details THEN user_details[u] ELSE EmptyDict,
                        thread_conversations)]
         total_users == TotalUsers(user_threads)
         threads_by_date == AnalyzeThreadsByDate(rep_threads)
         items == [i \in 1..Len(user_order) |->
                     [user_id      |-> user_order[i],
                      thread_count |-> threads_per_user[user_order[i]].thread_count,
                      thread_ids   |-> threads_per_user[user_order[i]].thread_ids,
                      user_info    |-> threads_per_user[user_order[i]].user_info]]
     IN  report' = [summary |-> SummaryOf(rep_threads, total_users, threads_per_user,
                                          user_order, threads_by_date),
                    threads_by_date  |-> threads_by_date,
                    threads_per_user |-> threads_per_user,
                    top_users        |-> GetTopUsers(items, TopN)]
  /\ rep_pc' = IF include_tool_analysis THEN "tools" ELSE "done"
  /\ rep_i' = 1
  /\ UNCHANGED <<repInputs, user_threads, user_order, user_details, thread_conversations,
                 total_stats>>
  /\ UNCHANGED <<convVars, toolVars, fetchVars, topVars, ctorVars, parVars>>

\* analyze_tool_calling_for_all_threads: a thread without thread_id
RepToolSkip ==
  /\ rep_pc = "tools"
  /\ rep_i <= Len(rep_threads)
  /\ ~Truthy(Get(rep_threads[rep_i].d, "thread_id", JStr(<<>>)))
  /\ rep_i' = rep_i + 1
  /\ UNCHANGED <<repInputs, rep_pc, user_threads, user_order, user_details,
                 thread_conversations, report, total_stats>>
  /\ UNCHANGED <<convVars, toolVars, fetchVars, topVars, ctorVars, parVars>>

\* analyze_tool_calling_for_all_threads: one iteration for a thread with
\* a thread_id; an exception of analyze_tool_calling_stats leaves the loop
RepToolThread ==
  /\ rep_pc = "tools"
  /\ rep_i <= Len(rep_threads)
  /\ LET thread == rep_threads[rep_i]
         thread_id == Get(thread.d, "thread_id", JStr(<<>>))
         result == AnalyzeToolCallingStats(HistoryOf(thread_id))
     IN  /\ Truthy(thread_id)
         /\ IF result.raised
              THEN /\ rep_pc' = "raised"
                   /\ UNCHANGED <<rep_i, total_stats>>
              ELSE /\ total_stats' = AddThreadStats(total_stats, thread, thread_id, result.stats)
                   /\ rep_i' = rep_i + 1
                   /\ UNCHANGED rep_pc
  /\ UNCHANGED <<repInputs, user_threads, user_order, user_details, thread_conversations,
                 report>>
  /\ UNCHANGED <<convVars, toolVars, fetchVars, topVars, ctorVars, parVars>>

\* the end of the tool analysis: the summary takes the tool totals
RepFinish ==
  /\ rep_pc = "tools"
  /\ rep_i > Len(rep_threads)
  /\ report' = [summary |-> report.summary
                              @@ [total_tool_calls |-> total_stats.total_tool_calls,
                                  create_lead_calls |-> total_stats.create_lead,
                                  send_html_email_calls |-> total_stats.send_html_email,
                                  threads_with_create_lead |->
                                    total_stats.threads_with_create_lead,
                                  threads_with_send_html_email |->
                                    total_stats.threads_with_send_html_email],
                 threads_by_date  |-> report.threads_by_date,
                 threads_per_user |-> report.threads_per_user,
                 top_users        |-> report.top_users,
                 tool_calling_stats |-> total_stats]
  /\ rep_pc' = "done"
  /\ UNCHANGED <<repInputs, rep_i, user_threads, user_order, user_details,
                 thread_conversations, total_stats>>
  /\ UNCHANGED <<convVars, toolVars, fetchVars, topVars, ctorVars, parVars>>

RepNext ==
  \/ RepSkipThread
  \/ RepUserThread
  \/ RepBuild
  \/ RepToolSkip
  \/ RepToolThread
  \/ RepFinish

SpecReport == RepInit /\ [][RepNext]_vars

\* ------------------------------------------------------------ get_top_users
TopInit ==
  /\ top_items \in TopInputs
  /\ top_n \in TopNs
  /\ top_pc = "start"
  /\ top_users = <<>>
  /\ ConvIdle
  /\ ToolIdle
  /\ FetchIdle
  /\ RepIdle
  /\ CtorIdle
  /\ ParIdle

\* get_top_users(threads_per_user, top_n)
TopReturn ==
  /\ top_pc = "start"
  /\ top_users' = GetTopUsers(top_items, top_n)
  /\ top_pc' = "done"
  /\ UNCHANGED <<top_items, top_n, convVars, toolVars, fetchVars, repVars, ctorVars, parVars>>

TopNext == TopReturn

SpecTop == TopInit /\ [][TopNext]_vars

\* ------------------------------------------------- ThreadAnalytics.__init__
CtorInit ==
  /\ secrets \in SecretStores
  /\ ctor_args \in CtorArgs
  /\ ctor_pc = "start"
  /\ engine = [constructed |-> FALSE]
  /\ existing_dirs \in SUBSET {sReports, sOut}
  /\ ConvIdle
  /\ ToolIdle
  /\ FetchIdle
  /\ RepIdle
  /\ TopIdle
  /\ ParIdle

\* getattr(st.secrets, "THREAD_API_URL", None): a missing key is an
\* AttributeError, which getattr answers with the default; a missing
\* store is another exception, which reaches `except Exception`
SecretsUrl(store) ==
  IF IsDict(store)
    THEN [raised |-> FALSE, url |-> Get(store.d, "THREAD_API_URL", JNull)]
    ELSE [raised |-> TRUE, url |-> JNull]

\* the try block and self.base_url = secrets_url
CtorReadSecrets ==
  /\ ctor_pc = "start"
  /\ IF SecretsUrl(secrets).raised
       THEN /\ ctor_pc' = "raised"
            /\ UNCHANGED engine
       ELSE /\ ctor_pc' = "configured"
            /\ engine' = [constructed |-> FALSE, base_url |-> SecretsUrl(secrets).url]
  /\ UNCHANGED <<secrets, ctor_args, existing_dirs>>
  /\ UNCHANGED <<convVars, toolVars, fetchVars, repVars, topVars, parVars>>

\* the remaining attributes, the session and _ensure_directory_structure
CtorFinish ==
  /\ ctor_pc = "configured"
  /\ engine' = [constructed     |-> TRUE,
                base_url        |-> engine.base_url,
                output_base_dir |-> ctor_args.output_base_dir,
                max_workers     |-> ctor_args.max_workers,
                session_headers |-> [Content_Type |-> <<"a","p","p","l","i","c","a","t","i","o","n","/","j","s","o","n">>]]
  /\ existing_dirs' = existing_dirs \cup {ctor_args.output_base_dir}
  /\ ctor_pc' = "constructed"
  /\ UNCHANGED <<secrets, ctor_args>>
  /\ UNCHANGED <<convVars, toolVars, fetchVars, repVars, topVars, parVars>>

CtorNext == CtorReadSecrets \/ CtorFinish

SpecCtor == CtorInit /\ [][CtorNext]_vars

\* -------------------------------------------------- process_threads_parallel
\* what a call of _process_single_thread ends with: a result dict, None,
\* or an exception (thread.get on an entry that is not a dict)
NoResult == [kind |-> "none"]
WorkerRaised == [kind |-> "raised"]
ProcessSingleThread(thread) ==
  IF ~IsDict(thread) THEN WorkerRaised
  ELSE LET thread_id == Get(thread.d, "thread_id", JNull)
       IN  IF ~Truthy(thread_id) THEN NoResult
           ELSE LET history == HistoryOf(thread_id)
                    conv == ExtractConversation(history)
                IN  IF ~Truthy(history) THEN NoResult
                    ELSE IF Len(conv) = 0 THEN NoResult
                    ELSE [kind  |-> "result",
                          value |-> [thread_id     |-> thread_id,
                                     created_at    |-> Get(thread.d, "created_at", JStr(<<>>)),
                                     updated_at    |-> Get(thread.d, "updated_at", JStr(<<>>)),
                                     message_count |-> Len(conv),
                                     conversation  |-> conv,
                                     metadata      |-> Get(thread.d, "metadata", JDict(EmptyDict))]]

\* a collection that keeps the latest result only
Collect_LatestOnly(collected_results, outcome) ==
  IF outcome.kind = "result" THEN <<outcome.value>> ELSE collected_results
\* result = future.result(); if result: results.append(result);
\* except Exception: continue
Collect(collected_results, outcome) ==
  IF outcome.kind = "result" THEN Append(collected_results, outcome.value)
  ELSE collected_results

\* a counter that counts the futures that brought a result
CountProcessed_ResultsOnly(count, outcome) ==
  count + (IF outcome.kind = "result" THEN 1 ELSE 0)
\* processed += 1, before the outcome of the future is looked at
CountProcessed(count, outcome) == count + 1

Pending == [state |-> "pending", outcome |-> NoResult]
Running == { i \in 1..Len(futures) : futures[i].state = "running" }

ParInit ==
  /\ par_threads \in ParThreadLists
  /\ max_workers \in 1..MaxWorkersArg
  /\ par_pc = "start"
  /\ returns = [i \in 1..Len(par_threads) |-> ProcessSingleThread(par_threads[i])]
  /\ futures = <<>>
  /\ results = <<>>
  /\ processed = 0
  /\ ConvIdle
  /\ ToolIdle
  /\ FetchIdle
  /\ RepIdle
  /\ TopIdle
  /\ CtorIdle

parInputs == <<par_threads, max_workers, returns>>
otherVars == <<convVars, toolVars, fetchVars, repVars, topVars, ctorVars>>

\* the dict comprehension: one future submitted per input thread
ParSubmit ==
  /\ par_pc = "start"
  /\ futures' = [i \in 1..Len(par_threads) |-> Pending]
  /\ par_pc' = "collect"
  /\ UNCHANGED <<parInputs, results, processed, otherVars>>

\* a free worker of the pool takes the oldest queued work item
ParStart(i) ==
  /\ par_pc = "collect"
  /\ futures[i].state = "pending"
  /\ \A j \in 1..(i - 1) : futures[j].state # "pending"
  /\ Cardinality(Running) < max_workers
  /\ futures' = [futures EXCEPT ![i].state = "running"]
  /\ UNCHANGED <<parInputs, par_pc, results, processed, otherVars>>

\* a worker ends its call of _process_single_thread: the future holds
\* the returned value or the exception, which the thread record and the
\* remote's answer for it determine
ParFinish(i) ==
  /\ par_pc = "collect"
  /\ futures[i].state = "running"
  /\ futures' = [futures EXCEPT ![i] = [state   |-> "finished",
                                        outcome |-> returns[i]]]
  /\ UNCHANGED <<parInputs, par_pc, results, processed, otherVars>>

\* one iteration of `for future in as_completed(...)` in the caller
ParCollect(i) ==
  /\ par_pc = "collect"
  /\ futures[i].state = "finished"
  /\ processed' = CountProcessed(processed, futures[i].outcome)
  /\ results' = Collect(results, futures[i].outcome)
  /\ futures' = [futures EXCEPT ![i].state = "yielded"]
  /\ UNCHANGED <<parInputs, par_pc, otherVars>>

\* as_completed is exhausted, the pool is shut down, return results
ParReturn ==
  /\ par_pc = "collect"
  /\ \A i \in 1..Len(futures) : futures[i].state = "yielded"
  /\ par_pc' = "done"
  /\ UNCHANGED <<parInputs, futures, results, processed, otherVars>>

ParWorkers == \E i \in 1..Len(futures) : ParStart(i) \/ ParFinish(i)
ParCaller == ParSubmit \/ (\E i \in 1..Len(futures) : ParCollect(i)) \/ ParReturn
ParNext == ParWorkers \/ ParCaller

\* the pool's threads and the calling thread are scheduled by the
\* interpreter, and every call of a worker ends
SpecPar == ParInit /\ [][ParNext]_vars /\ WF_vars(ParWorkers) /\ WF_vars(ParCaller)

\* ------------------------------------------------------------ properties
\* the deduplication key of the conversation display
\* (role | first 50 | last 50 when longer than 100 | timestamp to the second)
KeyHeadLen == 50
KeyTailLen == 50
KeyLongLen == 100
KeyTimeLen == 19
DedupKey(m) ==
  LET content == Strip(m.content)
  IN  << Lower(m.role),
         IF Len(content) > KeyHeadLen THEN Prefix(content, KeyHeadLen) ELSE content,
         IF Len(content) > KeyLongLen THEN Suffix(content, KeyTailLen) ELSE <<>>,
         IF Len(m.timestamp) > 0 THEN Prefix(m.timestamp, KeyTimeLen) ELSE <<>> >>

\* the raw candidates the builder reads from history_data
HistoryCandidates ==
  IF Truthy(history_data) /\ IsList(history_data) /\ IsDict(history_data.l[1])
    THEN ItemCandidates(history_data.l[1])
    ELSE <<>>

\* C1: no two messages of the returned conversation share the
\* deduplication key (role, first 50 characters, last 50 characters when
\* the content is longer than 100, timestamp truncated to the second).
C1_NoDuplicateKeys ==
  conv_pc = "done" =>
    \A i, j \in 1..Len(conversation) :
       i < j => DedupKey(conversation[i]) # DedupKey(conversation[j])

\* C2: the returned conversation is ascending by timestamp (string
\* comparison) and messages of equal timestamp keep the order in which
\* they were discovered.
C2_SortedStable ==
  conv_pc = "done" =>
    /\ \A i \in 1..(Len(conversation) - 1) :
          StrLeq(conversation[i].timestamp, conversation[i + 1].timestamp)
    /\ Len(conversation) = Len(collected)
    /\ \A k \in 1..Len(collected) :
          LET F(m) == m.timestamp = collected[k].timestamp
          IN  SelectSeq(conversation, F) = SelectSeq(collected, F)

C2_Witness ==
  /\ conv_pc = "done"
  /\ Len(conversation) >= 2
  /\ conversation[1].timestamp = conversation[2].timestamp
  /\ conversation[1].content # conversation[2].content

\* the role string of a raw candidate, and whether its text is blank
CandidateRole(c) == Get(c.d, "type", Get(c.d, "role", JStr(sUnknown)))
CandidateText(c) ==
  PyStr(NormalizeContent(Get(c.d, "content",
                             Get(c.d, "text", Get(c.d, "message", JStr(<<>>))))))
RoleNames == { <<"h","u","m","a","n">>, <<"u","s","e","r">>, <<"a","i">>,
               <<"a","s","s","i","s","t","a","n","t">> }
\* a candidate that must yield no message whatever the letter case rule
Discardable(c) ==
  \/ ~IsDict(c)
  \/ ~IsStr(CandidateRole(c))
  \/ Lower(CandidateRole(c).s) \notin RoleNames
  \/ Len(Strip(CandidateText(c))) = 0

\* C9: every message has role User or AI and content that is non-empty
\* after trimming; a candidate of another type or with blank content
\* produces no message.
C9_ValidMessages ==
  conv_pc = "done" =>
    /\ \A i \in 1..Len(conversation) :
          /\ conversation[i].role \in {rUser, rAI}
          /\ Len(conversation[i].content) > 0
          /\ Strip(conversation[i].content) = conversation[i].content
    /\ Len(conversation) <=
         Cardinality({i \in 1..Len(HistoryCandidates) : ~Discardable(HistoryCandidates[i])})

C9_Witness ==
  /\ conv_pc = "done"
  /\ Len(conversation) = 1
  /\ Len(HistoryCandidates) = 2
  /\ \E i \in 1..2 : /\ IsDict(HistoryCandidates[i])
                     /\ CandidateRole(HistoryCandidates[i]) = JStr(<<"s","y","s","t","e","m">>)

\* the message a candidate yields when its role is recognized by `names`
\* after the conversion `conv` of the role string
ExpectedMessage(c, ts, conv(_), names) ==
  IF Discardable(c) \/ conv(CandidateRole(c).s) \notin names THEN <<>>
  ELSE << [timestamp |-> ts,
           role      |-> IF conv(CandidateRole(c).s) \in {<<"h","u","m","a","n">>, <<"u","s","e","r">>}
                           THEN rUser ELSE rAI,
           content   |-> Strip(CandidateText(c))] >>
Exact(s) == s
ExpectedCollected(conv(_)) ==
  Flatten([i \in 1..Len(HistoryCandidates) |->
             ExpectedMessage(HistoryCandidates[i], CreatedAt(history_data.l[1]), conv, RoleNames)])

\* C10 as stated: a candidate with non-empty content becomes a message
\* whenever its lower-cased role is human, user, ai or assistant.
C10_LowercasedRoles ==
  conv_pc = "collected" => collected = ExpectedCollected(Lower)

\* C10 as amended: the role is matched exactly as given (case-sensitive);
\* human/user map to User, ai/assistant to AI, and the role is read from
\* `type`, from `role` only when `type` is absent.
C10_ExactRoles ==
  conv_pc = "collected" => collected = ExpectedCollected(Exact)

C10_Witness ==
  /\ conv_pc = "collected"
  /\ Len(collected) = 1
  /\ collected[1].role = rAI
  /\ Len(HistoryCandidates) = 2
  /\ HistoryCandidates[1] = TypeMsg(<<"H","u","m","a","n">>, JStr(sHi))
  /\ "type" \notin DOMAIN HistoryCandidates[2].d

\* the descriptors an analysis of tool_history reads, in order
HistoryCalls ==
  IF Truthy(tool_history) /\ IsList(tool_history)
    THEN Chain([i \in 1..Len(tool_history.l) |-> ItemCalls(tool_history.l[i])])
    ELSE NoCalls
CountedIds ==
  { HistoryCalls.calls[i].call_id : i \in
      { k \in 1..Len(HistoryCalls.calls) :
          Truthy(HistoryCalls.calls[k].function_name) /\ Truthy(HistoryCalls.calls[k].call_id) } }
DetailIds(name) ==
  { i \in 1..Len(tool_stats.tool_calls_detail) :
      tool_stats.tool_calls_detail[i].function_name = JStr(name) }

\* C3: within one call of analyze_tool_calling_stats each distinct call_id
\* is counted at most once, in whichever messages, history items or
\* descriptor shape it occurs: the detail list holds it once, and the
\* total and the per-function counters count the detail entries.
C3_CallIdCountedOnce ==
  LET detail == tool_stats.tool_calls_detail
  IN  /\ \A i, j \in 1..Len(detail) : i < j => detail[i].call_id # detail[j].call_id
      /\ tool_stats.total_tool_calls = Cardinality({detail[i].call_id : i \in 1..Len(detail)})
      /\ tool_stats.create_lead = Cardinality(DetailIds(sCreateLead))
      /\ tool_stats.send_html_email = Cardinality(DetailIds(sSendHtmlEmail))
      /\ tool_pc = "done" =>
           {detail[i].call_id : i \in 1..Len(detail)} = CountedIds

\* the duplicate page: call c1 of create_lead in two history items
C3_Witness ==
  /\ tool_pc = "done"
  /\ IsList(tool_history)
  /\ Len(tool_history.l) = 2
  /\ tool_history.l[1] = tool_history.l[2]
  /\ tool_history.l[1] = ToolItem(<<KwMsg(<<KwCall(sC1, sCreateLead)>>)>>, TsA)
  /\ tool_stats.create_lead = 1
  /\ tool_stats.total_tool_calls = 1

\* the pages fetch_threads returned before the i-th, concatenated
PagesBefore(i) == Flatten([j \in 1..(i - 1) |-> received[j].threads])
WindowGiven == Truthy(date_from) \/ Truthy(date_to)

C6_Safety ==
  /\ \A i \in 1..Len(requests) :
        /\ requests[i].limit = requests[1].limit
        /\ requests[i].offset = (i - 1) * requests[1].limit
  /\ Len(requests) = Len(received) + (IF fetch_pc = "await" THEN 1 ELSE 0)
  /\ \A i \in 1..Len(received) :
        Len(received[i].threads) = 0 =>
          i = Len(received) /\ fetch_pc = "done" /\ Len(requests) = Len(received)
  /\ fetch_pc = "done" =>
        /\ Len(received) >= 1
        /\ Len(received[Len(received)].threads) = 0
        /\ ~WindowGiven => all_threads = PagesBefore(Len(received))

\* C6: fetch_all_threads requests the offsets 0, L, 2L, ... with one page
\* size L, each request after the previous one returned; the first empty
\* page ends the requests, and without a date window the result is the
\* concatenation of the pages received before it; the call terminates.
C6_Pagination == []C6_Safety /\ <>(fetch_pc = "done")

C6_Witness ==
  /\ fetch_pc = "done"
  /\ ~WindowGiven
  /\ Len(requests) = 3
  /\ requests[3].offset = 2000
  /\ Len(all_threads) = 6

\* C7: a failed page request never propagates: the failed page counts as
\* an empty page, the loop ends there, and the result is what the earlier
\* pages accumulated.
C7_FailureEndsStream ==
  /\ fetch_pc # "raised"
  /\ \A i \in 1..Len(received) :
        received[i].kind # "ok" =>
          /\ Len(received[i].threads) = 0
          /\ i = Len(received)
          /\ fetch_pc = "done"
          /\ all_threads = (IF WindowGiven
                              THEN FilterThreadsByDate(PagesBefore(i), date_from, date_to)
                              ELSE PagesBefore(i))

C7_Witness ==
  /\ fetch_pc = "done"
  /\ Len(received) = 2
  /\ received[2].kind = "invalid_json"
  /\ Len(all_threads) > 0

\* the date of a record, when its updated_at is a string that parses
RecordDate(thread) ==
  IF "updated_at" \in DOMAIN thread.d /\ IsStr(thread.d["updated_at"])
    THEN FromIsoFormatDate(ReplaceZ(thread.d["updated_at"].s))
    ELSE NoDate
InWindow(thread) ==
  /\ RecordDate(thread).ok
  /\ Truthy(date_from) => StrptimeDate(date_from.s).date <= RecordDate(thread).date
  /\ Truthy(date_to) => RecordDate(thread).date <= StrptimeDate(date_to.s).date

\* C8: with a date window, a fetched record is in the result exactly when
\* its updated_at parses and its date lies in [date_from, date_to], both
\* bounds inclusive, an omitted bound unbounded; records whose updated_at
\* is missing or does not parse are never in the result.
C8_WindowFilter ==
  WindowGiven =>
    /\ fetch_pc # "raised"
    /\ all_threads = SelectSeq(PagesBefore(Len(received) + 1), InWindow)

C8_Witness ==
  /\ fetch_pc = "done"
  /\ date_from = JStr(Date0102)
  /\ date_to = JStr(Date0102)
  /\ Len(all_threads) = 2
  /\ Len(PagesBefore(Len(received))) = 5
  /\ \E i \in 1..5 : ~RecordDate(PagesBefore(Len(received))[i]).ok


\* ----------------------------------------------------------- report claims
AllHaveUserId == \A i \in 1..Len(rep_threads) : Truthy(UserIdOf(rep_threads[i]))
AllHaveThreadId == \A i \in 1..Len(rep_threads) : Truthy(ThreadIdOf(rep_threads[i]))
SumOfThreadCounts ==
  Sum([i \in 1..Len(user_order) |-> report.threads_per_user[user_order[i]].thread_count])

\* C4 as stated: in every report generate_report returns for a thread list
\* whose records all have a non-empty metadata.user_id, the thread_count
\* values of threads_per_user add up to summary.total_threads
C4_FoldConsistency ==
  (rep_pc = "done" /\ AllHaveUserId) =>
    SumOfThreadCounts = report.summary.total_threads

\* C4 amended: in every report generate_report returns for a thread list
\* whose records all have a non-empty metadata.user_id and a non-empty
\* thread_id, the thread_count values add up to summary.total_threads
C4_FoldConsistencyWithThreadId ==
  (rep_pc = "done" /\ AllHaveUserId /\ AllHaveThreadId) =>
    SumOfThreadCounts = report.summary.total_threads

\* three threads of two users, one thread listed for a user twice over
C4_Witness ==
  /\ rep_pc = "done"
  /\ AllHaveUserId /\ AllHaveThreadId
  /\ Len(rep_threads) = 3
  /\ report.summary.total_users = 2
  /\ \E u \in DOMAIN report.threads_per_user : report.threads_per_user[u].thread_count = 2
  /\ SumOfThreadCounts = 3

\* a thread whose history fetch fails, is empty, or holds a non-mapping item
BadHistory(thread) ==
  /\ Truthy(ThreadIdOf(thread))
  /\ LET resp == RemoteHistory(ThreadIdOf(thread).s)
     IN  \/ resp.kind # "ok"
         \/ ~IsList(resp.data)
         \/ resp.data.l = <<>>
         \/ \E k \in 1..Len(resp.data.l) : ~IsDict(resp.data.l[k])

ZeroEntry(thread) ==
  LET thread_id == ThreadIdOf(thread)
      user_id == UserIdOf(thread)
  IN  /\ thread_id \in DOMAIN thread_conversations
      /\ thread_conversations[thread_id].total_messages = 0
      /\ thread_conversations[thread_id].user_messages = 0
      /\ thread_conversations[thread_id].ai_messages = 0
      /\ user_id \in DOMAIN report.threads_per_user
      /\ \E k \in 1..Len(report.threads_per_user[user_id].thread_ids) :
            report.threads_per_user[user_id].thread_ids[k] = thread_id
      /\ include_tool_analysis =>
           /\ thread_id \in DOMAIN total_stats.tool_calls_by_thread
           /\ total_stats.tool_calls_by_thread[thread_id].tool_stats.total_tool_calls = 0

\* C5: a thread with a failing, empty or unparsable history never makes
\* generate_report raise; in the report it has an all-zero conversation
\* entry, is counted for its user and contributes no tool call, and the
\* other threads of the batch are all processed
C5_BadThreadTolerated ==
  /\ rep_pc # "raised"
  /\ rep_pc = "done" =>
       /\ \A i \in 1..Len(rep_threads) :
            (BadHistory(rep_threads[i]) /\ Truthy(UserIdOf(rep_threads[i])))
              => ZeroEntry(rep_threads[i])
       /\ \A i \in 1..Len(rep_threads) :
            (Truthy(ThreadIdOf(rep_threads[i])) /\ Truthy(UserIdOf(rep_threads[i])))
              => ThreadIdOf(rep_threads[i]) \in DOMAIN thread_conversations

\* ------------------------------------------------ history items, all of them
\* the messages of the k-th history item are all in the conversation
ItemAccumulated(k) ==
  IsDict(history_data.l[k]) =>
    \A i \in 1..Len(ItemMessages(history_data.l[k])) :
      \E j \in 1..Len(conversation) : conversation[j] = ItemMessages(history_data.l[k])[i]

\* C11: extract_convfrom_history visits every history item in
\* order and accumulates the messages of all of them: a valid message of
\* the k-th item, for any k, is in the returned conversation.
C11_AllItemsAccumulated ==
  (conv_pc = "done" /\ IsList(history_data)) =>
    \A k \in 1..Len(history_data.l) : ItemAccumulated(k)

\* C12: a non-mapping history item is skipped: when the history holds one,
\* the messages of the well-formed items before and after it are still in
\* the returned conversation.
C12_BadItemSkipped ==
  (/\ conv_pc = "done"
   /\ IsList(history_data)
   /\ \E b \in 1..Len(history_data.l) : ~IsDict(history_data.l[b])) =>
    \A k \in 1..Len(history_data.l) : ItemAccumulated(k)

\* the call ids a well-formed history item offers for counting
ItemCallIds(item) ==
  { ItemCalls(item).calls[i].call_id : i \in
      { k \in 1..Len(ItemCalls(item).calls) :
          Truthy(ItemCalls(item).calls[k].function_name)
            /\ Truthy(ItemCalls(item).calls[k].call_id) } }

\* C13: analyze_tool_calling_stats never raises on loosely-typed input: a
\* non-mapping item, a `values` that is a sequence, a message or tool-call
\* entry of the wrong type is skipped, and the calls of the remaining
\* well-formed items are counted.
C13_LooseInputTolerated ==
  /\ tool_pc # "raised"
  /\ (tool_pc = "done" /\ IsList(tool_history)) =>
       \A k \in 1..Len(tool_history.l) :
          ~ItemCalls(tool_history.l[k]).raised =>
             ItemCallIds(tool_history.l[k])
               \subseteq { tool_stats.tool_calls_detail[i].call_id :
                             i \in 1..Len(tool_stats.tool_calls_detail) }

\* ---------------------------------------------------------- report summary
\* h hundredths is a / b rounded to 2 decimals
IsRounded2(h, a, b) == 2 * (IF 100 * a >= h * b THEN 100 * a - h * b ELSE h * b - 100 * a) <= b
IsAverage(h, a, b) == IF b > 0 THEN IsRounded2(h, a, b) ELSE h = 0

DistinctUserIds == { UserIdOf(rep_threads[i]) : i \in {k \in 1..Len(rep_threads) :
                                                          Truthy(UserIdOf(rep_threads[k]))} }
DistinctUserIdsWithThread ==
  { UserIdOf(rep_threads[i]) : i \in {k \in 1..Len(rep_threads) :
                                        Truthy(UserIdOf(rep_threads[k]))
                                          /\ Truthy(ThreadIdOf(rep_threads[k]))} }

\* C14 as stated: total_threads is the number of records given,
\* total_users the number of distinct user_id values, avg_threads_per_user
\* their quotient rounded to 2 decimals, 0 without users
C14_SummaryCounts ==
  rep_pc = "done" =>
    /\ report.summary.total_threads = Len(rep_threads)
    /\ report.summary.total_users = Cardinality(DistinctUserIds)
    /\ IsAverage(report.summary.avg_threads_per_user,
                 Len(rep_threads), Cardinality(DistinctUserIds))

\* C14 amended: total_users is the number of distinct user_id values of
\* the records that have both a user_id and a thread_id
C14_SummaryCountsWithThreadId ==
  rep_pc = "done" =>
    /\ report.summary.total_threads = Len(rep_threads)
    /\ report.summary.total_users = Cardinality(DistinctUserIdsWithThread)
    /\ IsAverage(report.summary.avg_threads_per_user,
                 Len(rep_threads), Cardinality(DistinctUserIdsWithThread))

\* the round trip: 3 threads of 2 users, 2 of user A and 1 of user B
C14_Witness ==
  /\ rep_pc = "done"
  /\ Len(rep_threads) = 3
  /\ report.summary.total_threads = 3
  /\ report.summary.total_users = 2
  /\ report.threads_per_user[JStr(uA)].thread_count = 2
  /\ report.threads_per_user[JStr(uB)].thread_count = 1
  /\ report.summary.avg_threads_per_user = 150

\* the records of user u that have a thread_id, in the order given
RecordsOf(u) ==
  LET Mine(thread) == UserIdOf(thread) = u /\ Truthy(ThreadIdOf(thread))
  IN  SelectSeq(rep_threads, Mine)

RecordsOn(date) ==
  { i \in 1..Len(rep_threads) :
      RecordDate(rep_threads[i]).ok /\ RecordDate(rep_threads[i]).date = date }
ParsableRecords == { i \in 1..Len(rep_threads) : RecordDate(rep_threads[i]).ok }

\* C16: threads_by_date maps each date to the number of records whose
\* updated_at parses to that date, in ascending date order; records with
\* a missing or unparsable updated_at are skipped, so the values add up to
\* the number of records with a parsable updated_at.
C16_ThreadsByDate ==
  rep_pc = "done" =>
    LET items == report.threads_by_date
    IN  /\ \A i \in 1..Len(items) :
             /\ StrptimeDate(items[i].date).ok
             /\ items[i].count = Cardinality(RecordsOn(StrptimeDate(items[i].date).date))
             /\ items[i].count > 0
        /\ \A i, j \in 1..Len(items) :
             i < j => StrptimeDate(items[i].date).date < StrptimeDate(items[j].date).date
        /\ \A k \in ParsableRecords :
             \E i \in 1..Len(items) :
                StrptimeDate(items[i].date).date = RecordDate(rep_threads[k]).date
        /\ Sum([i \in 1..Len(items) |-> items[i].count]) = Cardinality(ParsableRecords)

\* three records given latest first, one of them unparsable
C16_Witness ==
  /\ rep_pc = "done"
  /\ Len(rep_threads) = 3
  /\ RecordDate(rep_threads[1]).ok /\ RecordDate(rep_threads[1]).date = 20240103
  /\ RecordDate(rep_threads[2]).ok /\ RecordDate(rep_threads[2]).date = 20240101
  /\ ~RecordDate(rep_threads[3]).ok
  /\ Len(report.threads_by_date) = 2
  /\ report.threads_by_date[1].date = Date0101
  /\ report.threads_by_date[2].count = 1

\* C17: peak_threads is the largest value of threads_by_date and peak_day
\* a date holding it, the first such date in iteration order (the earliest)
\* when several tie; {2024-01-01: 3, 2024-01-02: 7} gives 2024-01-02 and 7;
\* an empty threads_by_date gives '' and 0.
C17_PeakDay ==
  /\ PeakOf(<<[date |-> Date0101, count |-> 3], [date |-> Date0102, count |-> 7]>>)
       = [peak_day |-> Date0102, peak_threads |-> 7]
  /\ rep_pc = "done" =>
       LET items == report.threads_by_date
           summary == report.summary
       IN  IF Len(items) = 0
             THEN summary.peak_day = <<>> /\ summary.peak_threads = 0
             ELSE \E i \in 1..Len(items) :
                    /\ summary.peak_day = items[i].date
                    /\ summary.peak_threads = items[i].count
                    /\ \A j \in 1..Len(items) : items[j].count <= items[i].count
                    /\ \A j \in 1..Len(items) :
                         items[j].count = items[i].count =>
                           /\ i <= j
                           /\ StrptimeDate(items[i].date).date <= StrptimeDate(items[j].date).date

\* two dates tie with one thread each, the later date given first
C17_Witness ==
  /\ rep_pc = "done"
  /\ Len(report.threads_by_date) = 2
  /\ report.threads_by_date[1].count = report.threads_by_date[2].count
  /\ RecordDate(rep_threads[1]).ok /\ RecordDate(rep_threads[1]).date = 20240103
  /\ report.summary.peak_day = Date0101
  /\ report.summary.peak_threads = 1

\* ------------------------------------------------------------ user profile
\* the profile the history of a thread yields, EmptyDict when it has none
DerivedProfile(thread) ==
  LET found == GetUserMetadata(HistoryOf(ThreadIdOf(thread)))
  IN  IF found.raised THEN EmptyDict ELSE found.meta

\* C19: the user_info of a user is the profile of the first of the user's
\* threads, in processing order, whose derived metadata has a non-empty
\* username or email, also when that thread is not the user's first.
C19_FirstProfileWins ==
  rep_pc = "done" =>
    \A u \in DOMAIN report.threads_per_user :
       LET mine == RecordsOf(u)
           with == { k \in 1..Len(mine) : DerivedProfile(mine[k]) # EmptyDict }
       IN  with # {} =>
             \E k \in with :
                /\ \A j \in with : k <= j
                /\ report.threads_per_user[u].user_info = DerivedProfile(mine[k])

\* ---------------------------------------------------------------- top users
\* the position of a user in the items given to get_top_users
EncounterIndex(user_id) == CHOOSE i \in 1..Len(top_items) : top_items[i].user_id = user_id

\* C18: top_users holds min(N, number of users) entries ordered by
\* thread_count non-increasing, users of equal thread_count in the order
\* of first encounter, and no user left out has a larger thread_count
\* than a user included.
C18_TopUsers ==
  top_pc = "done" =>
    /\ Len(top_users) = Min(top_n, Len(top_items))
    /\ \A i \in 1..Len(top_users) :
         \E k \in 1..Len(top_items) :
            /\ top_items[k].user_id = top_users[i].user_id
            /\ top_items[k].thread_count = top_users[i].thread_count
            /\ top_items[k].thread_ids = top_users[i].thread_ids
            /\ top_items[k].user_info = top_users[i].user_info
    /\ \A i, j \in 1..Len(top_users) :
         i < j =>
           /\ top_users[i].thread_count >= top_users[j].thread_count
           /\ top_users[i].user_id # top_users[j].user_id
           /\ top_users[i].thread_count = top_users[j].thread_count =>
                EncounterIndex(top_users[i].user_id) < EncounterIndex(top_users[j].user_id)
    /\ \A k \in 1..Len(top_items) :
         (\A i \in 1..Len(top_users) : top_users[i].user_id # top_items[k].user_id) =>
           \A i \in 1..Len(top_users) : top_items[k].thread_count <= top_users[i].thread_count

\* three users, the last two tied above the first, the top two taken
C18_Witness ==
  /\ top_pc = "done"
  /\ Len(top_items) = 3
  /\ top_n = 2
  /\ top_items[1].thread_count = 1
  /\ top_items[2].thread_count = 2
  /\ top_items[3].thread_count = 2
  /\ Len(top_users) = 2
  /\ top_users[1].user_id = JStr(uB)
  /\ top_users[2].user_id = JStr(uC)

\* C18 in the report: top_users is get_top_users of threads_per_user in
\* the order in which the users were first encountered, with N = 10
C18_ReportTopUsers ==
  rep_pc = "done" =>
    /\ Len(report.top_users) = Min(TopN, Cardinality(DOMAIN report.threads_per_user))
    /\ \A i, j \in 1..Len(report.top_users) :
         i < j => report.top_users[i].thread_count >= report.top_users[j].thread_count

\* ------------------------------------------------------------- construction
UrlConfigured == IsDict(secrets) /\ "THREAD_API_URL" \in DOMAIN secrets.d

\* C20: constructing ThreadAnalytics when the configuration holds no
\* THREAD_API_URL (no secrets store, or a store without the key) fails
\* with an exception; no instance with an unset base_url exists.
C20_MissingUrlIsFatal ==
  /\ (~UrlConfigured /\ ctor_pc # "start") => ctor_pc = "raised"
  /\ engine.constructed => engine.base_url # JNull

\* ------------------------------------------------------- tool-call counters
DetailFields == {"function_name", "call_id", "arguments", "timestamp", "message_type",
                 "message_id"}

\* C22: in every result of analyze_tool_calling_stats total_tool_calls is
\* the length of tool_calls_detail, create_lead and send_html_email are
\* the numbers of detail entries with exactly that function_name, a call
\* of another function counts in the total only, and every detail entry
\* has the six fields.
C22_CountersMatchDetail ==
  LET detail == tool_stats.tool_calls_detail
      others == { i \in 1..Len(detail) :
                    detail[i].function_name \notin {JStr(sCreateLead), JStr(sSendHtmlEmail)} }
  IN  /\ tool_stats.total_tool_calls = Len(detail)
      /\ tool_stats.create_lead = Cardinality(DetailIds(sCreateLead))
      /\ tool_stats.send_html_email = Cardinality(DetailIds(sSendHtmlEmail))
      /\ tool_stats.total_tool_calls - tool_stats.create_lead - tool_stats.send_html_email
           = Cardinality(others)
      /\ \A i \in 1..Len(detail) : DOMAIN detail[i] = DetailFields

\* a create_lead call and a call of another function
C22_Witness ==
  /\ tool_pc = "done"
  /\ tool_stats.total_tool_calls = 2
  /\ tool_stats.create_lead = 1
  /\ tool_stats.send_html_email = 0
  /\ \E i \in 1..Len(tool_stats.tool_calls_detail) :
        tool_stats.tool_calls_detail[i].function_name = JStr(sSearch)

\* the only message of a history of one item, when the history has that form
HasSingleMessage ==
  /\ IsList(tool_history) /\ Len(tool_history.l) = 1
  /\ IsDict(tool_history.l[1])
  /\ "values" \in DOMAIN tool_history.l[1].d
  /\ IsDict(tool_history.l[1].d["values"])
  /\ "messages" \in DOMAIN tool_history.l[1].d["values"].d
  /\ IsList(tool_history.l[1].d["values"].d["messages"])
  /\ Len(tool_history.l[1].d["values"].d["messages"].l) = 1
  /\ IsDict(tool_history.l[1].d["values"].d["messages"].l[1])
SingleMessage == tool_history.l[1].d["values"].d["messages"].l[1]
\* the value of additional_kwargs.tool_calls and of tool_calls in a message
KwargsValue(message) ==
  LET kw == Get(message.d, "additional_kwargs", JDict(EmptyDict))
  IN  IF IsDict(kw) THEN Get(kw.d, "tool_calls", JNull) ELSE JNull
DirectValue(message) == Get(message.d, "tool_calls", JNull)
\* the call ids of the descriptors of a list that name a function
KwargsIds(v) ==
  IF ~IsList(v) THEN {}
  ELSE { v.l[i].d["id"] : i \in { j \in 1..Len(v.l) :
           /\ IsDict(v.l[j]) /\ "id" \in DOMAIN v.l[j].d /\ Truthy(v.l[j].d["id"])
           /\ "function" \in DOMAIN v.l[j].d /\ IsDict(v.l[j].d["function"])
           /\ Truthy(Get(v.l[j].d["function"].d, "name", JStr(<<>>))) } }
DirectIds(v) ==
  IF ~IsList(v) THEN {}
  ELSE { v.l[i].d["id"] : i \in { j \in 1..Len(v.l) :
           /\ IsDict(v.l[j]) /\ "id" \in DOMAIN v.l[j].d /\ Truthy(v.l[j].d["id"])
           /\ Truthy(Get(v.l[j].d, "name", JStr(<<>>))) } }
UsedIds == { tool_stats.tool_calls_detail[i].call_id : i \in 1..Len(tool_stats.tool_calls_detail) }
NonEmptyList(v) == IsList(v) /\ Len(v.l) > 0
AbsentOrEmpty(v) == v = JNull \/ (IsList(v) /\ Len(v.l) = 0)

\* C23 (as stated): for a single message the counted calls come from one
\* shape only: from additional_kwargs.tool_calls when it is a non-empty
\* list, and from the message's own tool_calls only when
\* additional_kwargs.tool_calls is absent or empty.
C23_AsStated ==
  (tool_pc = "done" /\ HasSingleMessage) =>
    /\ NonEmptyList(KwargsValue(SingleMessage)) => UsedIds = KwargsIds(KwargsValue(SingleMessage))
    /\ (UsedIds \cap DirectIds(DirectValue(SingleMessage)) # {}) => AbsentOrEmpty(KwargsValue(SingleMessage))

\* C23 (amended): for a single message the counted calls come from one
\* shape only: from additional_kwargs.tool_calls when it is a non-empty
\* list, and from the message's own tool_calls in every other case
\* (absent, empty, or a value that is not a list).
C23_OneShapePerMessage ==
  (tool_pc = "done" /\ HasSingleMessage) =>
    IF NonEmptyList(KwargsValue(SingleMessage))
      THEN UsedIds = KwargsIds(KwargsValue(SingleMessage))
      ELSE UsedIds = DirectIds(DirectValue(SingleMessage))
\* a message that carries both shapes, with the kwargs list non-empty
C23_Witness ==
  /\ tool_pc = "done" /\ HasSingleMessage
  /\ NonEmptyList(KwargsValue(SingleMessage))
  /\ DirectIds(DirectValue(SingleMessage)) # {}
  /\ UsedIds = {JStr(sC2)}

EmptyHistoryRun ==
  \A i \in 1..Len(rep_threads) :
    Truthy(ThreadIdOf(rep_threads[i])) => ~Truthy(HistoryOf(ThreadIdOf(rep_threads[i])))
\* no thread with a thread_id has a history from which a message is extracted
NoConversationRun ==
  \A i \in 1..Len(rep_threads) :
    Truthy(ThreadIdOf(rep_threads[i])) =>
      ExtractConversation(HistoryOf(ThreadIdOf(rep_threads[i]))) = <<>>
ReportBuilt == rep_pc \in {"tools", "done"}
AllAveragesZero ==
  /\ report.summary.avg_threads_per_user = 0
  /\ report.summary.avg_messages_per_user = 0
  /\ report.summary.avg_messages_per_thread = 0
NoMessagesReported ==
  /\ report.summary.total_messages = 0
  /\ report.summary.user_messages = 0
  /\ report.summary.ai_messages = 0
  /\ report.summary.avg_messages_per_user = 0
  /\ report.summary.avg_messages_per_thread = 0

C26_ProfileFrozen ==
  [][\A u \in DOMAIN user_details :
       u \in DOMAIN user_details' /\ user_details'[u] = user_details[u]]_vars
\* the fallback stored for uA at thread t6 is still there after thread t1,
\* whose history names the user alice, has been processed
C26_Witness ==
  /\ rep_pc = "users" /\ rep_i = 3
  /\ ThreadIdOf(rep_threads[1]) = JStr(t6) /\ UserIdOf(rep_threads[1]) = JStr(uA)
  /\ ThreadIdOf(rep_threads[2]) = JStr(t1) /\ UserIdOf(rep_threads[2]) = JStr(uA)
  /\ user_details[JStr(uA)] = FallbackProfile(JStr(uA))
  /\ JStr(t1) \in DOMAIN thread_conversations

\* the thread records the tool analysis has folded into total_stats
ToolFolded ==
  IF rep_pc = "tools" \/ (rep_pc = "done" /\ include_tool_analysis)
    THEN { i \in 1..(rep_i - 1) : Truthy(ThreadIdOf(rep_threads[i])) }
    ELSE {}
\* the counters analyze_tool_calling_stats returned for the i-th record
ThreadToolStats(i) == total_stats.tool_calls_by_thread[ThreadIdOf(rep_threads[i])].tool_stats
CreatedOn(i, day) ==
  LET created_at == Get(rep_threads[i].d, "created_at", JStr(<<>>))
  IN  Truthy(created_at) /\ DateKey(created_at).ok /\ DateKey(created_at).key = day
HasParsableCreatedAt(i) ==
  LET created_at == Get(rep_threads[i].d, "created_at", JStr(<<>>))
  IN  Truthy(created_at) /\ DateKey(created_at).ok
\* the sum of total_tool_calls of the records of a set
TotalOver(records) ==
  Sum([i \in 1..Len(rep_threads) |->
         IF i \in records THEN ThreadToolStats(i).total_tool_calls ELSE 0])
RECURSIVE SumOfDates(_, _)
SumOfDates(by_date, days) ==
  IF days = {} THEN 0
  ELSE LET d == CHOOSE x \in days : TRUE
       IN  by_date[d].total + SumOfDates(by_date, days \ {d})

\* C27: the global tool counters are the sums of the per-thread counters
\* over the thread records with a thread_id (a call_id that occurs in two
\* threads counts in both); the total of every date is the sum of
\* total_tool_calls of the records created on that date; the totals of
\* all dates add up to at most the global total, and to exactly the global
\* total when every folded record has a parsable created_at.
C27_ToolTotalsAreSums ==
  LET folded == ToolFolded
      by_date == total_stats.tool_calls_by_date
      dates_total == SumOfDates(by_date, DOMAIN by_date)
  IN  ReportBuilt =>
      /\ total_stats.total_tool_calls = TotalOver(folded)
      /\ total_stats.create_lead =
           Sum([i \in 1..Len(rep_threads) |->
                  IF i \in folded THEN ThreadToolStats(i).create_lead ELSE 0])
      /\ total_stats.send_html_email =
           Sum([i \in 1..Len(rep_threads) |->
                  IF i \in folded THEN ThreadToolStats(i).send_html_email ELSE 0])
      /\ \A d \in DOMAIN by_date :
           by_date[d].total = TotalOver({ i \in folded : CreatedOn(i, d) })
      /\ dates_total <= total_stats.total_tool_calls
      /\ (\A i \in folded : HasParsableCreatedAt(i)) => dates_total = total_stats.total_tool_calls
\* t1 and t4 share call id c1 and both count it; a third record with
\* calls has an unparsable created_at, so the dates hold less than the total
C27_Witness ==
  /\ rep_pc = "done" /\ include_tool_analysis
  /\ Len(rep_threads) = 3
  /\ ThreadIdOf(rep_threads[1]) = JStr(t1) /\ HasParsableCreatedAt(1)
  /\ ThreadIdOf(rep_threads[2]) = JStr(t4)
  /\ ~HasParsableCreatedAt(3)
  /\ report.tool_calling_stats.total_tool_calls = 4
  /\ report.tool_calling_stats.create_lead = 3
  /\ SumOfDates(total_stats.tool_calls_by_date, DOMAIN total_stats.tool_calls_by_date) = 3

\* C29: in every entry of thread_conversations user_messages + ai_messages
\* = total_messages = the length of the stored conversation, user_messages
\* being the number of messages of role User; in the summary
\* user_messages + ai_messages = total_messages and neither is negative.
C29_MessageCountsAddUp ==
  /\ \A tid \in DOMAIN thread_conversations :
       LET e == thread_conversations[tid]
       IN  /\ e.total_messages = Len(e.conversation)
           /\ e.user_messages + e.ai_messages = e.total_messages
           /\ e.user_messages =
                Cardinality({ i \in 1..Len(e.conversation) : e.conversation[i].role = rUser })
           /\ e.user_messages >= 0 /\ e.ai_messages >= 0
  /\ ReportBuilt =>
       /\ report.summary.user_messages + report.summary.ai_messages
            = report.summary.total_messages
       /\ report.summary.user_messages >= 0
       /\ report.summary.ai_messages >= 0
\* a finished report over two threads with messages of both roles
C29_Witness ==
  /\ rep_pc = "done"
  /\ JStr(t1) \in DOMAIN thread_conversations
  /\ JStr(t4) \in DOMAIN thread_conversations
  /\ thread_conversations[JStr(t1)].user_messages = 1
  /\ thread_conversations[JStr(t1)].ai_messages = 1
  /\ report.summary.total_messages = 3
  /\ report.summary.user_messages = 2
  /\ report.summary.ai_messages = 1

\* a non-empty page of which the date window keeps nothing
AllFilteredOut(i) ==
  /\ Len(received[i].threads) > 0
  /\ FilterThreadsByDate(received[i].threads, date_from, date_to) = <<>>

\* C30: with a date window, a non-empty page whose records are all
\* filtered out does not end the pagination: the loop goes on to request
\* the next offset, and when the stream has ended the result holds the
\* matching records of every page, those after such a page included.
C30_FilteredPageContinues ==
  WindowGiven =>
    /\ \A i \in 1..Len(received) :
         AllFilteredOut(i) =>
           /\ i < Len(received) \/ fetch_pc \in {"loop", "await"}
           /\ (i = Len(received) /\ fetch_pc = "loop") => offset = i * Limit
           /\ i < Len(requests) => requests[i + 1].offset = i * Limit
    /\ fetch_pc = "done" =>
         all_threads = SelectSeq(PagesBefore(Len(received) + 1), InWindow)
\* the first page lies before the window, the second page has a record
\* in it, and the third request found the end of the stream
C30_Witness ==
  /\ fetch_pc = "done"
  /\ date_from = JStr(Date0103)
  /\ Len(received) = 3
  /\ AllFilteredOut(1)
  /\ Len(all_threads) = 1
  /\ all_threads[1] \in { received[2].threads[k] : k \in 1..Len(received[2].threads) }

\* the results of processing the threads one at a time, in input order
SequentialResults ==
  LET outcomes == [i \in 1..Len(par_threads) |-> ProcessSingleThread(par_threads[i])]
      HasResult(o) == o.kind = "result"
      kept == SelectSeq(outcomes, HasResult)
  IN  [i \in 1..Len(kept) |-> kept[i].value]
Occurrences(list, x) == Cardinality({ i \in 1..Len(list) : list[i] = x })
SameCollection(a, b) ==
  /\ Len(a) = Len(b)
  /\ \A i \in 1..Len(a) : Occurrences(a, a[i]) = Occurrences(b, a[i])
Contributed == { i \in 1..Len(futures) :
                   futures[i].state = "yielded" /\ futures[i].outcome.kind = "result" }

====
